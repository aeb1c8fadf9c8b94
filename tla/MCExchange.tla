----------------------------- MODULE MCExchange -----------------------------
(***************************************************************************)
(* An instance of Exchange for TLC: heads and bodies that fit into one     *)
(* recv and others that take several; with no length, the right one, one   *)
(* too short and one too long; plain, coded and damaged; with headers the  *)
(* Forwarder does not find, or takes from another place.  The shortest     *)
(* coded body is longer than what it stands for.                           *)
(***************************************************************************)
EXTENDS Exchange

Plain(head, body, declared, found) ==
  [head |-> head, body |-> body, declared |-> declared, found |-> found,
   kept |-> 0, marked |-> FALSE, coding |-> "none", plain |-> body]

Coded(coding, body, declared, plain) ==
  [head |-> 2, body |-> body, declared |-> declared, found |-> {declared},
   kept |-> 0, marked |-> TRUE, coding |-> coding, plain |-> plain]

Spelled ==
  {Plain(h, b, d, {d}) : h \in {1, 4}, b \in {0, 1, 5}, d \in {0, 1, 3, 5, 7}}
    \cup {Coded("gzip", b, d, p) : b \in {2, 4}, d \in {0, 2, 4, 5}, p \in {0, 1, 7}}
    \cup {Coded("damaged", 4, d, 7) : d \in {0, 4}}

SpelledOtherwise ==
  {Plain(h, b, 5, f) : h \in {1, 4}, b \in {1, 5}, f \in {{0}, {0, 3}, {7}}}
    \cup {[Coded("gzip", 4, 4, p) EXCEPT !.found = {0}, !.kept = k] :
            p \in {1, 7}, k \in {0, 4}}
    \cup {[Coded("gzip", 4, d, 7) EXCEPT !.marked = FALSE] : d \in {0, 4}}

MCResponses == Spelled \cup SpelledOtherwise
=============================================================================
