------------------------------- MODULE MCPipes -------------------------------
(* Instances of Pipes for TLC: a pipe r-w, a socketpair a-b, a named socket s
   that c connects to. *)
EXTENDS Pipes

\* A pipe, a socketpair, and a socket with a name.
AllEnds == {"r", "w", "a", "b", "s", "c"}
PairEnds == {"a", "b"}
PipeEnds == {"r", "w"}
TwoPipes == {"r", "w", "a", "b"}

KindOf == [e \in Ends |-> CASE e \in {"r", "w"} -> "fifo" [] e \in {"a", "b"} -> "pair"
                            [] OTHER -> "local"]
PeerOf == [e \in Ends |-> CASE e = "r" -> "w" [] e = "w" -> "r" [] e = "a" -> "b"
                            [] e = "b" -> "a" [] e = "s" -> "c" [] OTHER -> "s"]
ServerOf == [e \in Ends |-> CASE e \in {"r", "w"} -> "r" [] e \in {"a", "b"} -> "a"
                              [] OTHER -> "s"]
Event == [e \in Ends |-> IF e \in {"a", "b"} THEN "PairEvent" ELSE "PipeEvent"]
AllEvents == {"PipeEvent", "PairEvent"}

\* 1 serves, 2 writes, 3 connects.
Hold(S, T) == [e \in Ends |-> IF e \in S THEN {1} ELSE IF e \in T THEN {2} ELSE {}]
Serves == {Hold({"r", "b"}, {"w", "a"}), Hold({"s"}, {})}
Roles == [p \in Procs |-> CASE p = 1 -> {"poll", "select", "read", "readv", "close"}
                            [] p = 2 -> {"write", "close", "exit"}
                            [] OTHER -> {"connect", "write", "close"}]
Buffers == [e \in Ends |-> IF e = "r" THEN 2 ELSE 1]
Watch == {{"r", "b"}, {"s"}}

\* Of the configurations that show what the restrictions are for.
OneEach == [e \in Ends |-> 1]
TwoEach == [e \in Ends |-> 2]
WatchAll == {{e} : e \in Ends}
PairHeld == {Hold({"b"}, {"a"})}
PairServed == {Hold({"a"}, {"b"})}
PipeHeld == {Hold({"r"}, {"w"})}
Both == [p \in Procs |-> {"read", "write", "close"}]
=============================================================================
