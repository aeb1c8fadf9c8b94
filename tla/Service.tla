------------------------------ MODULE Service ------------------------------
(***************************************************************************)
(* What the proxy promises its clients, whatever threads and pools it is   *)
(* made of: connections wait in one line in the order of their arrival,    *)
(* each is taken at most once and from the front, it then is served or     *)
(* lost.  It can be lost only during maintenance of the proxy, and from    *)
(* the first maintenance on the service of one client may reach the        *)
(* connection of another: that much the proxy does not promise.            *)
(***************************************************************************)
EXTENDS Sequences, SequencesExt

CONSTANT Clients

VARIABLES
  line,        \* clients waiting, first to come first
  serving,     \* clients being served
  served,      \* clients whose service ended
  lost,        \* clients taken and turned away without an answer
  disturbed,   \* clients whose connection was used by the service of others
  maintenance, \* is the configuration being changed
  changed      \* has it ever been

svars == <<line, serving, served, lost, disturbed, maintenance, changed>>

Known == ToSet(line) \cup serving \cup served \cup lost

ServiceInit ==
  /\ line = <<>>
  /\ serving = {} /\ served = {} /\ lost = {} /\ disturbed = {}
  /\ maintenance = FALSE /\ changed = FALSE

Arrive(c) ==
  /\ c \notin Known
  /\ line' = Append(line, c)
  /\ UNCHANGED <<serving, served, lost, disturbed, maintenance, changed>>

Take ==
  /\ line # <<>>
  /\ serving' = serving \cup {Head(line)}
  /\ line' = Tail(line)
  /\ UNCHANGED <<served, lost, disturbed, maintenance, changed>>

Complete(c) ==
  /\ c \in serving
  /\ serving' = serving \ {c}
  /\ served' = served \cup {c}
  /\ UNCHANGED <<line, lost, disturbed, maintenance, changed>>

Lose(c) ==
  /\ maintenance
  /\ c \in serving
  /\ serving' = serving \ {c}
  /\ lost' = lost \cup {c}
  /\ UNCHANGED <<line, served, disturbed, maintenance, changed>>

Disturb(c) ==
  /\ changed
  /\ disturbed' = disturbed \cup {c}
  /\ UNCHANGED <<line, serving, served, lost, maintenance, changed>>

\* A client that is done with the proxy may come again.
Leave(c) ==
  /\ c \in served \cup lost
  /\ served' = served \ {c}
  /\ lost' = lost \ {c}
  /\ disturbed' = disturbed \ {c}
  /\ UNCHANGED <<line, serving, maintenance, changed>>

Maintain(on) ==
  /\ maintenance # on
  /\ maintenance' = on
  /\ changed' = (changed \/ on)
  /\ UNCHANGED <<line, serving, served, lost, disturbed>>

ServiceNext ==
  \/ \E c \in Clients :
       Arrive(c) \/ Complete(c) \/ Lose(c) \/ Disturb(c) \/ Leave(c)
  \/ Take
  \/ \E on \in BOOLEAN : Maintain(on)

ServiceSpec == ServiceInit /\ [][ServiceNext]_svars
=============================================================================
