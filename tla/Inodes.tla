------------------------------- MODULE Inodes -------------------------------
(***************************************************************************)
(* What the system calls on files promise about permissions and owners: a  *)
(* call that succeeds leaves what it was asked for, and that stays until   *)
(* another call that succeeds changes it.  A new file is its creator's in  *)
(* a user's directory, and otherwise of the directory's owner, as that was *)
(* when the call began; it has the group of the directory.                 *)
(***************************************************************************)
CONSTANTS Callers, Objects, Top, Up, NoAttr, NoReq, NoSid, Users

VARIABLES
  attr,  \* of each object: permissions, set-id bits, owner and group
  req    \* what each caller has asked for and not been told about

There(o) == attr[o] # NoAttr

\* A call begins.
Ask(c, r) ==
  /\ req[c] = NoReq /\ r # NoReq
  /\ IF r.call \in {"create", "mkdir"}
     THEN LET dir == attr[Up[r.obj]] IN
          /\ ~There(r.obj) /\ r.gid = dir.gid
          /\ r.uid = IF dir.uid \in Users THEN c ELSE dir.uid
     ELSE There(r.obj)
  /\ req' = [req EXCEPT ![c] = r]
  /\ UNCHANGED attr

Unless(sid, old) == IF sid = NoSid THEN old ELSE sid

Result(c, r, a) ==
  CASE r.call \in {"create", "mkdir"} ->
         [perm |-> r.perm, special |-> r.special, uid |-> r.uid, gid |-> r.gid]
    [] r.call = "chmod" -> [a EXCEPT !.perm = r.perm, !.special = r.special]
    [] r.call = "chown" ->
         [a EXCEPT !.uid = Unless(r.uid, @), !.gid = Unless(r.gid, @)]

\* It succeeds.
Answer(c) ==
  LET r == req[c] IN
  /\ r # NoReq /\ (There(r.obj) <=> r.call \in {"chmod", "chown"})
  /\ attr' = [attr EXCEPT ![r.obj] = Result(c, r, @)]
  /\ req' = [req EXCEPT ![c] = NoReq]

\* It fails.
Refuse(c) == req[c] # NoReq /\ req' = [req EXCEPT ![c] = NoReq] /\ UNCHANGED attr

Unlink(o) == There(o) /\ attr' = [attr EXCEPT ![o] = NoAttr] /\ UNCHANGED req

INext ==
  \/ \E c \in Callers : Ask(c, req'[c]) \/ Answer(c) \/ Refuse(c)
  \/ \E o \in Objects : Unlink(o)

ivars == <<attr, req>>

IInit == req = [c \in Callers |-> NoReq] /\ \A o \in Objects : ~There(o)

ISpec == IInit /\ [][INext]_ivars
=============================================================================
