----------------------------- MODULE MCAclMode -----------------------------
(* Instances of AclMode for TLC. *)
EXTENDS AclMode, TLC
CONSTANTS u1, u2

\* Entries of Windows' own lists.
Ace(sid, level, rwx) ==
  [sid |-> sid, allow |-> TRUE, only |-> FALSE, level |-> level, rwx |-> rwx]
Full(sid) == Ace(sid, "full", Rights)
Read(sid) == Ace(sid, "read", {"r", "x"})
ForChildren(e) == [e EXCEPT !.only = TRUE]
Sd(owner, group, dacl) == [owner |-> owner, group |-> group, dacl |-> dacl]

\* A user's profile; a directory below C:\Program Files.
Profile == Sd(SidAdmins, SidUsers, <<Full(SidSystem), Full(SidAdmins), Full(u1)>>)
Programs ==
  Sd(SidSystem, SidSystem,
     <<ForChildren(Full(SidAdmins)), Full(SidAdmins), Full(SidSystem), Read(SidUsers)>>)
\* One in a profile that its user shares with a second one, who may do all; and
\* one that he has made with Windows' tools, and shares with all to read and with
\* the second user to modify.
SharedWith ==
  Sd(SidAdmins, SidUsers, <<Full(u2), Full(SidSystem), Full(SidAdmins), Full(u1)>>)
SharedModify ==
  Sd(u1, SidUsers, <<Read(SidAuthenticated), Ace(u2, "modify", Rights),
                     Full(SidSystem), Full(SidAdmins), Full(u1)>>)

McGiven == {Profile, Programs, SharedWith, SharedModify}

CONSTANTS d, f
McUp == (d :> Top) @@ (f :> d)

P(u, g, o) == [user |-> u, group |-> g, other |-> o]
Mode(perm, special) == [perm |-> perm, special |-> special]
\* 04750 and 0604.
McModes == {Mode(P(Rights, {"r", "x"}, {}), {"suid"}), Mode(P({"r", "w"}, {}, {"r"}), {})}
\* chown u2 and chown :users.
McGrants == {[uid |-> u2, gid |-> NoSid], [uid |-> NoSid, gid |-> SidUsers]}
=============================================================================
