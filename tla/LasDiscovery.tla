----------------------------- MODULE LasDiscovery -----------------------------
(***************************************************************************)
(* One station listens to the token passes of a ring it is not part of and *)
(* builds its LAS from them (TokenRing::witness_token_pass).  The ring of  *)
(* the other stations is the environment: it passes the token upwards,     *)
(* admits stations in the GAP of the token holder, and loses stations,     *)
(* which their predecessor notices by passing the token to them in vain.   *)
(***************************************************************************)
EXTENDS TokenRing

CONSTANTS
  Listener,        \* address of the listening station
  Others,          \* addresses the other active stations may have
  MaxChanges,      \* bound: how often the ring admits or loses a station
  MaxMissed        \* bound: how many token passes the listener misses

ASSUME LasDiscoveryAssumption ==
  /\ Listener \in StationAddress
  /\ Others \subseteq StationAddress \ {Listener}
  /\ Others # {} /\ IsFiniteSet(Others)
  /\ MaxChanges \in Nat /\ MaxMissed \in Nat

VARIABLES
  ring,            \* the TokenRing of the listener
  alive,           \* the other stations that are up and in the ring
  known,           \* the stations the ring passes the token to
  holder,          \* the station with the token; NoHolder when it is lost
  attempt,         \* the holder's PassTokenAttempt: 1, 2 or 3
  changes, missed, \* what the two bounds count
  rotations        \* ends of rotations heard since the last disturbance, up to 3

vars == <<ring, alive, known, holder, attempt, changes, missed, rotations>>

NoHolder == 128

Init ==
  /\ ring = NewRing(Listener)
  /\ alive \in SUBSET Others \ {{}}
  /\ known = alive
  /\ holder \in alive
  /\ attempt = 1 /\ changes = 0 /\ missed = 0 /\ rotations = 0

Successor(a, stations) == NextOf(a, stations)

(* The listener witnesses, or misses, the token pass sa -> da. *)
Hear(sa, da, disturbs) ==
  \/ /\ ring' = WitnessTokenPass(ring, sa, da)
     /\ rotations' = CASE disturbs -> 0
                       [] ~disturbs /\ WrapsAround(sa, da) -> Min({3, rotations + 1})
                       [] ~disturbs /\ ~WrapsAround(sa, da) -> rotations
     /\ UNCHANGED missed
  \/ /\ missed < MaxMissed
     /\ missed' = missed + 1
     /\ rotations' = 0
     /\ UNCHANGED ring

PassToken ==
  LET da == Successor(holder, known) IN
  /\ holder \in alive /\ da \in alive
  /\ Hear(holder, da, FALSE)
  /\ holder' = da
  /\ attempt' = 1
  /\ UNCHANGED <<alive, known, changes>>

(* NS is gone: the token is sent to it in vain three times, and then NS is *)
(* removed from the LAS of the holder.                                     *)
PassTokenInVain ==
  LET da == Successor(holder, known) IN
  /\ holder \in alive /\ da \notin alive
  /\ Hear(holder, da, TRUE)
  /\ attempt' = (attempt % 3) + 1
  /\ known' = IF attempt = 3 THEN known \ {da} ELSE known
  /\ UNCHANGED <<alive, holder, changes>>

(* The holder polls its GAP, finds a station there, and so has a new NS. *)
Join(s) ==
  /\ changes < MaxChanges
  /\ holder \in alive
  /\ attempt = 1        \* DoGap::No on a retry
  /\ s \in Others \ known
  /\ Successor(holder, known \cup {s}) = s
  /\ alive' = alive \cup {s}
  /\ known' = known \cup {s}
  /\ changes' = changes + 1
  /\ rotations' = 0
  /\ UNCHANGED <<ring, holder, attempt, missed>>

Vanish(s) ==
  /\ changes < MaxChanges
  /\ s \in alive /\ alive # {s}
  /\ alive' = alive \ {s}
  /\ holder' = IF holder = s THEN NoHolder ELSE holder
  /\ attempt' = IF holder = s THEN 1 ELSE attempt
  /\ changes' = changes + 1
  /\ rotations' = 0
  /\ UNCHANGED <<ring, known, missed>>

(* The token lost timeout is shortest at the lowest address: that station  *)
(* sends the token to itself.                                              *)
Claim ==
  LET s == Min(alive) IN
  /\ holder = NoHolder
  /\ Hear(s, s, TRUE)
  /\ holder' = s
  /\ UNCHANGED <<alive, known, attempt, changes>>

Next == \/ PassToken \/ PassTokenInVain \/ Claim
        \/ \E s \in Others : Join(s) \/ Vanish(s)

(* The ring keeps passing its token, as every station of it is polled. *)
Spec == Init /\ [][Next]_vars /\ WF_vars(PassToken \/ PassTokenInVain \/ Claim)

------------------------------------------------------------------------------
(* Two ends of rotation without a disturbance in between enclose one whole *)
(* rotation: from then on a LAS that the listener trusts lists exactly the *)
(* stations of the ring, and NS and PS are its neighbours in that ring.    *)
(* A LAS that kept a station which left, or missed one that joined, would  *)
(* make the station pass the token wrongly when it is admitted.            *)
SettledLasIsTheRing ==
  rotations >= 2 /\ ReadyForRing(ring) =>
    /\ ring.active = known
    /\ ring.next = Successor(Listener, known)
    /\ ring.prev \in known
    /\ \A a \in known : ~Skips(ring.prev, Listener, a)

(* Three undisturbed ends of rotation are always enough to have a valid    *)
(* LAS, wherever in a rotation listening, or the disturbance, began        *)
(* (the three rotations of test_las_initialization_happy_path).            *)
ReadyAfterThreeRotations == rotations = 3 => ReadyForRing(ring)

(* In the end the LAS is valid and is the ring, and stays so. *)
LasConverges == <>[](ReadyForRing(ring) /\ ring.active = known)

==============================================================================
