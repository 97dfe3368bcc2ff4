---- MODULE MCServerQueue ----
EXTENDS ServerQueue

\* Two requests of one completion, and one with a completion and a slot to be saved.
MCJobs == <<[req |-> "a", slot |-> 0, acts |-> 0], [req |-> "b", slot |-> 0, acts |-> 0],
            [req |-> "c", slot |-> 1, acts |-> 0], [req |-> "c", slot |-> 0, acts |-> 1]>>
====
