------------------------------ MODULE AclMode ------------------------------
(***************************************************************************)
(* POSIX permissions on Windows' access control lists (vfs/vfs_acl.c).  A  *)
(* list has no entry that says "I am the group's": which entry stands for  *)
(* the owner, the group and the others is found out anew by each call,     *)
(* from the rights an entry gives beside read, write and execute, and from *)
(* its place.  open(), mkdir(), mknod() and symlink() derive the list of a *)
(* new object from its directory's; chmod() and chown() read a list, close *)
(* nothing to others meanwhile, and write it back.                         *)
(***************************************************************************)
EXTENDS Naturals, SequencesExt

CONSTANTS
  Users,              \* SIDs of this machine's users
  SidSystem,          \* root
  SidAdmins, SidUsers, SidAuthenticated,  \* groups
  NoSid,              \* __SidNone: leave it as it is
  Top,                \* a directory MinC has not made
  Objects, Dirs, Up,  \* the names below it, directories, and where they are
  Given,              \* the security descriptors Top may have
  Modes,              \* permissions and set-id bits asked for
  Grants,             \* owners and groups asked of chown()
  Serial,             \* one call at a time on an object
  MaxCalls,           \* bound: calls in progress
  None                \* no object, no call

Callers == Users \cup {SidSystem}
Sids == Callers \cup {SidAdmins, SidUsers, SidAuthenticated}
Rights == {"r", "w", "x"}

\* An entry.  "full" has WRITE_DAC, WRITE_OWNER, DELETE and READ_CONTROL beside
\* rwx, "modify" the last two, "read" READ_CONTROL; only: INHERIT_ONLY_ACE.
Entry == [sid: Sids, allow: BOOLEAN, only: BOOLEAN,
          level: {"full", "modify", "read", "none"}, rwx: SUBSET Rights]
Security == [owner: Sids, group: Sids, dacl: Seq(Entry)]
Perm == [user: SUBSET Rights, group: SUBSET Rights, other: SUBSET Rights]

ASSUME AclAssumption ==
  /\ Users \cap {SidSystem, SidAdmins, SidUsers, SidAuthenticated, NoSid} = {}
  /\ Dirs \subseteq Objects /\ Top \notin Objects
  /\ Up \in [Objects -> Dirs \cup {Top}]
  /\ Given \subseteq Security
  /\ Modes \subseteq [perm: Perm, special: SUBSET {"suid", "sgid"}]
  /\ Grants \subseteq [uid: Sids \cup {NoSid}, gid: Sids \cup {NoSid}]
  /\ Serial \in BOOLEAN /\ MaxCalls \in Nat

VARIABLES
  sd,  \* the security descriptor of each object
  op   \* the call each caller is in, and the descriptor it has read
vars == <<sd, op>>

There(o) == sd[o] # None

\* The SIDs of a caller's token, and its GroupSid.
Token(c) ==
  IF c = SidSystem THEN {SidSystem, SidAdmins, SidAuthenticated}
  ELSE {c, SidUsers, SidAuthenticated}
GroupOf(c) == IF c = SidSystem THEN SidAdmins ELSE SidUsers

-----------------------------------------------------------------------------
(* Windows' access check, for entries that allow.                           *)
For(c, s) == {e \in ToSet(s.dacl) : e.allow /\ ~e.only /\ e.sid \in Token(c)}
Granted(c, s) == UNION {e.rwx : e \in For(c, s)}
HasLevel(c, s, L) == \E e \in For(c, s) : e.level \in L

\* READ_CONTROL, WRITE_DAC and WRITE_OWNER; WRITE_DAC and FILE_WRITE_ATTRIBUTES.
MayChmod(c, s) == HasLevel(c, s, {"full"})
MayChown(c, s) == MayChmod(c, s) \/ (s.owner = c /\ HasLevel(c, s, {"modify"}))

-----------------------------------------------------------------------------
(* The entries that stand for the owner, the group and the others.          *)
Roles == {"user", "group", "other"}

\* Mutant: the type mask is not consulted when a role is wanted.
AclOwnerTypeFirst(e, seen) ==
  LET wanted == CASE e.level = "full" -> "user" [] e.level = "modify" -> "group"
                  [] e.level = "read" -> "other" [] OTHER -> "none"
  IN
  IF ~e.allow THEN "none" ELSE IF e.only THEN "default"
  ELSE IF wanted \in seen THEN "access" ELSE wanted

\* What an entry is, when those after it have taken the roles in seen.
AclOwnerType(e, seen) ==
  LET Or(r, s) == IF r \in seen THEN s ELSE r
      wanted == CASE e.level = "full" -> Or("user", "group")
                  [] e.level = "modify" -> Or("group", "other")
                  [] e.level = "read" -> Or("other", "group")
                  [] OTHER -> "none"
  IN
  IF ~e.allow THEN "none" ELSE IF e.only THEN "default"
  ELSE IF wanted \in seen THEN "access" ELSE wanted

\* The types of all entries: the list is read from its end.
Types(dacl) ==
  LET After[i \in 0 .. Len(dacl)] ==  \* of the last i entries
        IF i = 0 THEN <<>>
        ELSE CHOOSE ts \in {<<AclOwnerType(dacl[Len(dacl) - i + 1], ToSet(s))>> \o s :
                              s \in {After[i - 1]}} : TRUE
  IN After[Len(dacl)]

-----------------------------------------------------------------------------
\* Owner and group that the caller gives an object.
vfs_acl_init(c, special) ==
  [owner |-> IF "suid" \in special THEN SidAdmins ELSE c,
   group |-> IF "sgid" \in special THEN SidSystem ELSE GroupOf(c)]

\* Entries with a role get its permissions, and the owner's the creator when it
\* was that of a user; further ones stay, and what has no role is left out.  A
\* list without an entry for the others gets one.
vfs_acl_create(source, c, perm) ==
  LET types == Types(source)
      New(i) == LET e == source[i] IN
                IF types[i] \notin Roles THEN e
                ELSE [e EXCEPT !.rwx = perm[types[i]],
                               !.sid = IF types[i] = "user" /\ @ \in Users THEN c ELSE @]
      kept == SelectSeq([i \in DOMAIN source |-> i],
                        LAMBDA i : types[i] \in Roles \cup {"access"})
      Others == [sid |-> SidAuthenticated, allow |-> TRUE, only |-> FALSE,
                 level |-> "read", rwx |-> perm.other]
      new == [k \in DOMAIN kept |-> New(kept[k])]
  IN IF "other" \in ToSet(types) THEN new ELSE Append(new, Others)

vfs_acl_chmod(source, perm) ==
  LET types == Types(source) IN
  [i \in DOMAIN source |->
     IF types[i] \notin Roles THEN source[i]
     ELSE [source[i] EXCEPT !.rwx = perm[types[i]]]]

\* Mutant: the new owner's entry is added, and the old one's left in the list.
vfs_acl_chown_add(source, uid, gid) ==
  LET types == Types(source)
      old == SelectSeq([i \in DOMAIN source |-> i], LAMBDA i : types[i] = "user")
  IN [k \in DOMAIN old |-> source[old[k]]] \o
     [i \in DOMAIN source |->
        IF types[i] = "user" /\ uid # NoSid THEN [source[i] EXCEPT !.sid = uid] ELSE source[i]]

\* Mutant: uid -1 and gid -1 are not looked for.
vfs_acl_chown_none(source, uid, gid) ==
  LET types == Types(source) IN
  [i \in DOMAIN source |->
     [source[i] EXCEPT !.sid = IF types[i] = "user" THEN uid
                               ELSE IF types[i] = "group" THEN gid ELSE @]]

\* The SID of the owner's and the group's entry is replaced.
vfs_acl_chown(source, uid, gid) ==
  LET types == Types(source) IN
  [i \in DOMAIN source |->
     [source[i] EXCEPT !.sid = IF types[i] = "user" /\ uid # NoSid THEN uid
                               ELSE IF types[i] = "group" /\ gid # NoSid THEN gid ELSE @]]

\* What stat() makes of a descriptor whose entries have these types.
Vattr(s, types) ==
  LET The(role) == {s.dacl[i] : i \in {j \in DOMAIN types : types[j] = role}}
      Sid(role, default) == IF The(role) = {} THEN default
                            ELSE (CHOOSE e \in The(role) : TRUE).sid
  IN [perm |-> [role \in Roles |-> UNION {e.rwx : e \in The(role)}],
      special |-> {b \in {"suid", "sgid"} : IF b = "suid" THEN s.owner = SidAdmins
                                            ELSE s.group = SidSystem},
      uid |-> Sid("user", s.owner), gid |-> Sid("group", s.group)]
vfs_acl_stat(s) == CHOOSE a \in {Vattr(s, types) : types \in {Types(s.dacl)}} : TRUE

-----------------------------------------------------------------------------
Busy(o) == \E c \in Callers : op[c] # None /\ op[c].obj = o
Free(c, o) ==
  /\ op[c] = None /\ ~(Serial /\ Busy(o))
  /\ Cardinality({p \in Callers : op[p] # None}) < MaxCalls

Begun(c, call, o, source, perm, special, uid, gid) ==
  /\ op' = [op EXCEPT ![c] = [call |-> call, obj |-> o, source |-> source, perm |-> perm,
                              special |-> special, uid |-> uid, gid |-> gid]]
  /\ UNCHANGED sd

\* open(), mkdir() and the like of a name that is not there read the list of
\* its directory; mkdir() takes no set-id bits.
Create(c, o, mode) ==
  /\ Free(c, o) /\ ~There(o) /\ There(Up[o])
  /\ LET dir == vfs_acl_stat(sd[Up[o]]) IN
     Begun(c, IF o \in Dirs THEN "mkdir" ELSE "create", o, sd[Up[o]], mode.perm,
           IF o \in Dirs THEN {} ELSE mode.special,
           IF dir.uid \in Users THEN c ELSE dir.uid, dir.gid)

\* chmod() and chown() open the object and read its list.
Chmod(c, o, mode) ==
  /\ Free(c, o) /\ There(o) /\ MayChmod(c, sd[o])
  /\ Begun(c, "chmod", o, sd[o], mode.perm, mode.special, NoSid, NoSid)

Chown(c, o, to) ==
  /\ Free(c, o) /\ There(o) /\ MayChown(c, sd[o])
  /\ Begun(c, "chown", o, sd[o], vfs_acl_stat(sd[o]).perm, {}, to.uid, to.gid)

\* Windows lets a caller make only SIDs of its token the owner.
OwnerOK(c) == vfs_acl_init(c, op[c].special).owner \in Token(c)

\* CreateFile() and CreateDirectory(): the name must still be free, and the
\* directory be there and let the caller add to it.
MayAdd(c) ==
  LET o == op[c].obj IN
  /\ ~There(o) /\ There(Up[o]) /\ OwnerOK(c) /\ "w" \in Granted(c, sd[Up[o]])

Returned(c) == op' = [op EXCEPT ![c] = None]

DiskCreateFile(c) ==
  /\ op[c] # None /\ op[c].call \in {"create", "mkdir"} /\ MayAdd(c)
  /\ LET own == vfs_acl_init(c, op[c].special) IN
     sd' = [sd EXCEPT ![op[c].obj] =
              [owner |-> own.owner, group |-> own.group,
               dacl |-> vfs_acl_create(op[c].source.dacl, c, op[c].perm)]]
  /\ Returned(c)

\* chmod() writes owner, group and list.
disk_fchmod(c) ==
  /\ op[c] # None /\ op[c].call = "chmod" /\ OwnerOK(c)
  /\ LET own == vfs_acl_init(c, op[c].special) IN
     sd' = [sd EXCEPT ![op[c].obj] =
              [owner |-> own.owner, group |-> own.group,
               dacl |-> vfs_acl_chmod(op[c].source.dacl, op[c].perm)]]
  /\ Returned(c)

\* chown() writes the list alone.
disk_fchown(c) ==
  /\ op[c] # None /\ op[c].call = "chown"
  /\ sd' = [sd EXCEPT ![op[c].obj].dacl =
              vfs_acl_chown(op[c].source.dacl, op[c].uid, op[c].gid)]
  /\ Returned(c)

\* Windows refuses, and nothing has changed.
Fail(c) ==
  /\ op[c] # None
  /\ \/ op[c].call \in {"create", "mkdir"} /\ ~MayAdd(c)
     \/ op[c].call = "chmod" /\ ~OwnerOK(c)
  /\ Returned(c) /\ UNCHANGED sd

\* unlink() and rmdir().  The name of an object that chmod() or chown() has
\* open is taken until they have closed it.
Unlink(o) ==
  /\ There(o) /\ ~Busy(o) /\ ~\E p \in Objects : There(p) /\ Up[p] = o
  /\ sd' = [sd EXCEPT ![o] = None] /\ UNCHANGED op

Init ==
  /\ \E s \in Given : sd = [o \in Objects \cup {Top} |-> IF o = Top THEN s ELSE None]
  /\ op = [c \in Callers |-> None]

Next ==
  \/ \E c \in Callers, o \in Objects, mode \in Modes : Create(c, o, mode) \/ Chmod(c, o, mode)
  \/ \E c \in Callers, o \in Objects, to \in Grants : Chown(c, o, to)
  \/ \E c \in Callers : DiskCreateFile(c) \/ disk_fchmod(c) \/ disk_fchown(c) \/ Fail(c)
  \/ \E o \in Objects : Unlink(o)

Spec == Init /\ [][Next]_vars

-----------------------------------------------------------------------------
(* Properties.                                                              *)

\* Security descriptors are well formed, also those that calls in progress
\* have read.
TypeOK ==
  /\ \A o \in Objects \cup {Top} : There(o) => sd[o] \in Security
  /\ \A c \in Callers : op[c] # None => op[c].source \in Security /\ op[c].obj \in Objects

\* What Top's list gives a user beside the entries of the three roles.
Granting(u) ==
  LET types == Types(sd[Top].dacl) IN
  UNION {sd[Top].dacl[i].rwx :
           i \in {j \in DOMAIN types : types[j] = "access" /\ sd[Top].dacl[j].sid \in Token(u)}}

\* No user but the owner and the members of the group that stat() names can do
\* more with an object MinC has made than the others may, whoever had it before
\* and however often its owner, permissions and directory have changed - except
\* what a further entry of Windows' own list gives.  vfs_acl_create() hands such
\* an entry down with its mask (vfs_acl.c:213) and chmod() never changes it.
KeepsOut ==
  \A o \in Objects, u \in Users :
    There(o) =>
      LET a == vfs_acl_stat(sd[o]) IN
      \/ a.uid = u \/ a.gid \in Token(u)
      \/ Granted(u, sd[o]) \subseteq a.perm.other \cup Granting(u)

\* What chmod() promises: the further entries give no more than it has set.
\* The code does not have it where Top's list names a second user.
ModeIsAll ==
  \A o \in Objects, u \in Users :
    There(o) =>
      LET a == vfs_acl_stat(sd[o]) IN
      \/ a.uid = u \/ a.gid \in Token(u) \/ Granted(u, sd[o]) \subseteq a.perm.other

Posix == INSTANCE Inodes WITH
  NoAttr <- None, NoReq <- None,
  attr <- [o \in Objects \cup {Top} |-> IF There(o) THEN vfs_acl_stat(sd[o]) ELSE None],
  req <- [c \in Callers |->
            IF op[c] = None THEN None
            ELSE [call |-> op[c].call, obj |-> op[c].obj, perm |-> op[c].perm,
                  special |-> op[c].special, uid |-> op[c].uid, gid |-> op[c].gid]]

\* What stat() makes of the lists changes as Inodes says: through chains of
\* directories, chmod() and chown() every call finds the entries that stand for
\* owner, group and others where the last one has left them.
ImplementsInodes == Posix!ISpec
=============================================================================
