------------------------------ MODULE PeerFeed ------------------------------
(***************************************************************************)
(* What the relay promises each client about the others in its room, apart *)
(* from handlers, locks and loops: a peer is introduced at most once, what *)
(* is then said of it is about a peer the client knows, and once it has    *)
(* left it is never heard of again.  A client may be told that a peer left *)
(* to whom it was never introduced.                                        *)
(*                                                                         *)
(* RelayRoom implements this (PeersFed there).                             *)
(***************************************************************************)
EXTENDS Naturals

CONSTANTS
  Peer,      \* the connections
  Channels   \* channel counts

VARIABLES
  known,   \* known[p]: the peers p's client has an entry for
  gone,    \* gone[p]: the peers p's client was told have left
  seen     \* seen[p][q]: what p's client shows of q

Entry == [silenced : BOOLEAN, channels : Channels]

Init ==
  /\ known = [p \in Peer |-> {}]
  /\ gone  = [p \in Peer |-> {}]
  /\ seen \in [Peer -> [Peer -> Entry]]

\* PeerJoined: q is new to p, and silent.
Introduce(p, q) ==
  /\ q # p /\ q \notin known[p] /\ q \notin gone[p]
  /\ known' = [known EXCEPT ![p] = @ \cup {q}]
  /\ \E c \in Channels :
       seen' = [seen EXCEPT ![p][q] = [silenced |-> TRUE, channels |-> c]]
  /\ UNCHANGED gone

\* PeerSilence or PeerChannels: one setting of a peer that p knows.
Update(p, q) ==
  /\ q # p /\ q \in known[p] /\ q \notin gone[p]
  /\ \/ \E s \in BOOLEAN : seen' = [seen EXCEPT ![p][q].silenced = s]
     \/ \E c \in Channels : seen' = [seen EXCEPT ![p][q].channels = c]
  /\ UNCHANGED <<known, gone>>

\* PeerLeft.
Dismiss(p, q) ==
  /\ q # p /\ q \notin gone[p]
  /\ known' = [known EXCEPT ![p] = @ \ {q}]
  /\ gone'  = [gone EXCEPT ![p] = @ \cup {q}]
  /\ UNCHANGED seen

Next == \E p, q \in Peer : Introduce(p, q) \/ Update(p, q) \/ Dismiss(p, q)

Spec == Init /\ [][Next]_<<known, gone, seen>>

=============================================================================
