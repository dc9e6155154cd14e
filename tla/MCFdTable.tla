----------------------------- MODULE MCFdTable -----------------------------
(* Instances of FdTable for TLC; handle values are numbers. *)
EXTENDS FdTable, TLC

\* The value of a handle closed is soon issued again: the lowest free one, or
\* none when the bound is reached.
Lowest(S) == {h \in S : \A g \in S : h <= g}

\* The handles of w that some descriptor names, as its handle or its event.
Named(w) == UNION {IF Where(d[1], d[2]) = w THEN HandlesOf(d) ELSE {} :
                     d \in Descriptors}
Lost(w, O) == {h \in Handles \ Named(w) : h # PipeEvent /\ ht[w][h].obj \in O}

\* Bounds: TLC does not go on from a state in which a file, pipe or socket has
\* leaked, or in which pipe_close() has left more than one event behind.
NoLeaks == \A w \in Wins : Lost(w, Files) = {}
FewLeaks == NoLeaks /\ \A v, w \in Wins :
                        \A g \in Lost(v, {"event"}), h \in Lost(w, {"event"}) :
                          v = w /\ g = h

\* Processes that do not exist yet and files on disk are interchangeable.
Symmetry == Permutations(Tasks) \cup Permutations(Wins) \cup Permutations(Paths)
=============================================================================
