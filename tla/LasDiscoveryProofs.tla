-------------------------- MODULE LasDiscoveryProofs --------------------------
(***************************************************************************)
(* A station that listens to any ring, of any addresses and with any       *)
(* number of changes and missed telegrams: after two undisturbed ends of   *)
(* rotation a LAS that it trusts is the ring, and after three it has one.  *)
(***************************************************************************)
EXTENDS LasDiscovery, TokenRingProofs

TypeOK ==
  /\ ring \in Rings /\ ring.this = Listener /\ Consistent(ring)
  /\ alive \subseteq known /\ known \subseteq Others /\ alive # {}
  /\ holder \in alive \cup {NoHolder}
  /\ rotations \in 0 .. 3

(* Address a is not below the first station of the ring, not above the last. *)
FromFirst(a) == \E k \in known : k <= a
UpToLast(a) == \E k \in known : a <= k

(* The rotation that has been heard from its beginning up to the holder:   *)
(* the LAS lists just the stations of the ring that had the token in it.   *)
HeardPart ==
  \A a \in BusAddress : FromFirst(a) /\ a < holder => (a \in ring.active <=> a \in known)

(* A LAS that is to be verified was updated with the end of a rotation: it *)
(* lists the last station, and none outside of the ring.                   *)
HeardEnd ==
  /\ \A k \in known : (\A j \in known : j <= k) => k \in ring.active
  /\ \A a \in ring.active : FromFirst(a) /\ UpToLast(a)

ListeningOK ==
  /\ rotations >= 1 => holder \in alive /\ ring.las # "Uninitialized"
  /\ rotations = 1 => HeardPart /\ (ring.las = "Verification" => HeardEnd)
  /\ rotations >= 2 => ring.active = known /\ ring.las \in {"Verification", "Valid"}
  /\ rotations = 3 => ring.las = "Valid"

IInv == TypeOK /\ ListeningOK

------------------------------------------------------------------------------
(* The stations of the ring and the listener have addresses of the bus. *)
LEMMA OthersAreStations ==
  ASSUME TypeOK
  PROVE  /\ known \subseteq StationAddress /\ known \subseteq BusAddress
         /\ Listener \in StationAddress /\ Listener \in BusAddress
         /\ NoHolder \notin alive
BY LasDiscoveryAssumption DEF TypeOK, StationAddress, BusAddress, NoHolder

(* The successor of a station of the ring is the next one above, or it is  *)
(* the first one and the station the last.                                  *)
LEMMA SuccessorInRing ==
  ASSUME TypeOK, NEW h \in known
  PROVE  LET d == Successor(h, known) IN
         /\ d \in known
         /\ d > h => \A a \in known : ~(h < a /\ a < d)
         /\ ~(d > h) => \A a \in known : d <= a /\ a <= h
<1> DEFINE d == Successor(h, known)
<1>1. h \in BusAddress /\ known \in SUBSET BusAddress
  BY OthersAreStations
<1>2. d \in known /\ \A a \in known : ~Skips(h, d, a)
  BY <1>1, NextOfIsNeighbour DEF Successor
<1> HIDE DEF d
<1>3. \A a \in known : a \in Nat
  BY <1>1 DEF BusAddress
<1>4. d > h => \A a \in known : ~(h < a /\ a < d)
  BY <1>2 DEF Skips
<1>5. ~(d > h) => \A a \in known : d <= a /\ a <= h
  BY <1>2, <1>3 DEF Skips
<1> QED  BY <1>2, <1>4, <1>5 DEF d

(* How a pass between two stations changes the LAS and its state. *)
LEMMA WitnessedPass ==
  ASSUME NEW r \in Rings, Consistent(r), NEW sa \in StationAddress, NEW da \in StationAddress
  PROVE  LET w == WitnessTokenPass(r, sa, da)
             updated == {a \in r.active : ~Skips(sa, da, a)} \cup {sa} IN
         /\ r.las = "Uninitialized" =>
              w.active = r.active
              /\ w.las = IF WrapsAround(sa, da) THEN "Discovery" ELSE "Uninitialized"
         /\ r.las = "Discovery" =>
              w.active = updated
              /\ w.las = IF WrapsAround(sa, da) THEN "Verification" ELSE "Discovery"
         /\ r.las = "Verification" /\ ~VerifyLas(r, sa, da) =>
              w.active = updated /\ w.las = "Discovery"
         /\ r.las = "Verification" /\ VerifyLas(r, sa, da) =>
              w.active = updated
              /\ w.las = IF WrapsAround(sa, da) THEN "Valid" ELSE "Verification"
         /\ r.las = "Valid" => w.active = updated /\ w.las = "Valid"
<1> DEFINE u == UpdateLas(r, sa, da)
           updated == {a \in r.active : ~Skips(sa, da, a)} \cup {sa}
<1>1. u \in Rings /\ u.las = r.las /\ u.active = updated
  <2>1. sa \in BusAddress /\ da \in BusAddress
    BY DEF StationAddress, BusAddress
  <2> QED  BY <2>1, UpdateLasType
<1>2. {sa, da} \subseteq StationAddress
  OBVIOUS
<1>3. \A l : \A x \in Rings : [x EXCEPT !.las = l].las = l /\ [x EXCEPT !.las = l].active = x.active
  BY DEF Rings
<1> HIDE DEF u
<1>4. CASE r.las = "Uninitialized"
  <2>1. WitnessTokenPass(r, sa, da)
          = [r EXCEPT !.las = IF WrapsAround(sa, da) THEN "Discovery" ELSE @]
    BY <1>2, <1>4 DEF WitnessTokenPass
  <2> QED  BY <1>3, <1>4, <2>1
<1>5. CASE r.las = "Discovery"
  <2>1. WitnessTokenPass(r, sa, da)
          = [u EXCEPT !.las = IF WrapsAround(sa, da) THEN "Verification" ELSE @]
    BY <1>2, <1>5 DEF WitnessTokenPass, u
  <2> QED  BY <1>1, <1>3, <1>5, <2>1
<1>6. CASE r.las = "Verification" /\ ~VerifyLas(r, sa, da)
  <2>1. WitnessTokenPass(r, sa, da) = [u EXCEPT !.las = "Discovery"]
    BY <1>2, <1>6 DEF WitnessTokenPass, u
  <2> QED  BY <1>1, <1>3, <1>6, <2>1
<1>7. CASE r.las = "Verification" /\ VerifyLas(r, sa, da)
  <2>1. updated = r.active
    BY <1>7 DEF VerifyLas
  <2>2. WitnessTokenPass(r, sa, da)
          = [r EXCEPT !.las = IF WrapsAround(sa, da) THEN "Valid" ELSE @]
    BY <1>2, <1>7 DEF WitnessTokenPass
  <2>3. /\ WitnessTokenPass(r, sa, da).active = r.active
        /\ WitnessTokenPass(r, sa, da).las
              = IF WrapsAround(sa, da) THEN "Valid" ELSE "Verification"
    BY <1>3, <1>7, <2>2
  <2> QED  BY <1>7, <2>1, <2>3
<1>8. CASE r.las = "Valid"
  <2>1. WitnessTokenPass(r, sa, da) = u
    BY <1>2, <1>8 DEF WitnessTokenPass, u
  <2> QED  BY <1>1, <1>8, <2>1
<1> QED  BY <1>4, <1>5, <1>6, <1>7, <1>8 DEF Rings, LasStates

(* The count of rotations stops at three. *)
LEMMA AtMostThree ==
  ASSUME NEW n \in 0 .. 3
  PROVE  Min({3, n + 1}) = IF n = 3 THEN 3 ELSE n + 1
<1>1. {3, n + 1} \in SUBSET Nat /\ {3, n + 1} # {}
  OBVIOUS
<1>2. Min({3, n + 1}) \in {3, n + 1} /\ \A x \in {3, n + 1} : Min({3, n + 1}) <= x
  BY <1>1, MinOfAddresses
<1> QED  BY <1>2

(* Whatever is heard or missed, the ring stays one, and the count of ends  *)
(* of rotation goes up by at most one.                                     *)
LEMMA HearType ==
  ASSUME TypeOK, NEW sa, NEW da, NEW disturbs \in BOOLEAN, Hear(sa, da, disturbs)
  PROVE  /\ ring' \in Rings /\ ring'.this = Listener /\ Consistent(ring')
         /\ rotations' \in 0 .. 3
         /\ disturbs => rotations' = 0
<1>1. ring' = WitnessTokenPass(ring, sa, da) \/ ring' = ring
  BY DEF Hear
<1>2. ring' \in Rings /\ ring'.this = Listener /\ Consistent(ring')
  BY <1>1, WitnessKeepsRing DEF TypeOK
<1>3. rotations' \in 0 .. 3 /\ (disturbs => rotations' = 0)
  <2>1. rotations \in 0 .. 3
    BY DEF TypeOK
  <2>2. Min({3, rotations + 1}) \in 0 .. 3
    BY <2>1, AtMostThree
  <2> QED  BY <2>1, <2>2 DEF Hear
<1> QED  BY <1>2, <1>3

(* The listener hears a station pass the token to its successor. *)
LEMMA HearPass ==
  ASSUME IInv, holder \in alive, holder' \in alive, holder' = Successor(holder, known),
         UNCHANGED <<alive, known>>,
         ring' = WitnessTokenPass(ring, holder, holder'),
         rotations' = IF WrapsAround(holder, holder') THEN Min({3, rotations + 1})
                                                     ELSE rotations
  PROVE  ListeningOK'
<1> DEFINE h == holder
           d == holder'
           updated == {a \in ring.active : ~Skips(h, d, a)} \cup {h}
<1>1. /\ h \in known /\ d \in known /\ h \in StationAddress /\ d \in StationAddress
      /\ known \subseteq BusAddress /\ ring.active \subseteq BusAddress
      /\ ring \in Rings /\ Consistent(ring) /\ rotations \in 0 .. 3
  BY OthersAreStations DEF IInv, TypeOK, Rings
<1>2. /\ d > h => \A a \in known : ~(h < a /\ a < d)
      /\ ~(d > h) => \A a \in known : d <= a /\ a <= h
  BY <1>1, SuccessorInRing DEF IInv
<1>3. h \in Nat /\ d \in Nat /\ \A a \in BusAddress : a \in Nat
  BY <1>1 DEF StationAddress, BusAddress
<1>4. ring.las # "Uninitialized" => ring'.active = updated /\ ring'.las # "Uninitialized"
  BY <1>1, WitnessedPass DEF LasStates, Rings
<1>5. CASE d > h
  <2>1. rotations' = rotations
    BY <1>3, <1>5 DEF WrapsAround
  <2>2. CASE rotations = 0
    BY <2>1, <2>2 DEF ListeningOK
  <2>3. CASE rotations = 1
    <3>1. ring.las # "Uninitialized" /\ HeardPart
      BY <2>3 DEF IInv, ListeningOK
    <3>2. HeardPart'
      <4> SUFFICES ASSUME NEW a \in BusAddress, FromFirst(a), a < d
                   PROVE  a \in updated <=> a \in known
        BY <1>4, <3>1 DEF HeardPart, FromFirst
      <4>1. a \in Nat
        BY <1>3
      <4>2. CASE a < h
        <5>1. ~Skips(h, d, a)
          BY <1>3, <1>5, <4>1, <4>2 DEF Skips
        <5> QED  BY <1>3, <3>1, <4>1, <4>2, <5>1 DEF HeardPart
      <4>3. CASE a = h
        BY <1>1, <4>3
      <4>4. CASE h < a
        <5>1. Skips(h, d, a) /\ a \notin known /\ a # h
          BY <1>2, <1>3, <1>5, <4>1, <4>4 DEF Skips
        <5> QED  BY <5>1
      <4> QED  BY <1>3, <4>1, <4>2, <4>3, <4>4
    <3>3. ASSUME ring'.las = "Verification" PROVE HeardEnd'
      <4>1. ~WrapsAround(h, d)
        BY <1>3, <1>5 DEF WrapsAround
      <4>2. ring.las = "Verification" /\ VerifyLas(ring, h, d)
        BY <1>1, <3>1, <3>3, <4>1, WitnessedPass DEF LasStates, Rings
      <4>3. updated = ring.active
        BY <4>2 DEF VerifyLas
      <4>4. HeardEnd
        BY <2>3, <4>2 DEF IInv, ListeningOK
      <4> QED  BY <1>4, <3>1, <4>3, <4>4 DEF HeardEnd, FromFirst, UpToLast
    <3> QED  BY <1>4, <2>1, <2>3, <3>1, <3>2, <3>3 DEF ListeningOK
  <2>4. CASE rotations >= 2
    <3>1. ring.active = known /\ ring.las \in {"Verification", "Valid"}
          /\ (rotations = 3 => ring.las = "Valid")
      BY <2>4 DEF IInv, ListeningOK
    <3>2. VerifyLas(ring, h, d)
      BY <1>1, <1>2, <1>5, <3>1 DEF VerifyLas, Skips
    <3>3. updated = known
      BY <3>1, <3>2 DEF VerifyLas
    <3>4. ring'.las = ring.las
      <4>1. ~WrapsAround(h, d)
        BY <1>3, <1>5 DEF WrapsAround
      <4> QED  BY <1>1, <3>1, <3>2, <4>1, WitnessedPass
    <3> QED  BY <1>4, <2>1, <2>4, <3>1, <3>3, <3>4 DEF ListeningOK
  <2> QED  BY <1>1, <2>2, <2>3, <2>4
<1>6. CASE ~(d > h)
  <2>1. WrapsAround(h, d)
    BY <1>3, <1>6 DEF WrapsAround
  <2>2. rotations' = IF rotations = 3 THEN 3 ELSE rotations + 1
    BY <1>1, <2>1, AtMostThree
  <2>3. \A a \in BusAddress : Skips(h, d, a) <=> h < a \/ a < d
    BY <1>6 DEF Skips
  <2>4. \A a \in BusAddress : (FromFirst(a) <=> d <= a) /\ (UpToLast(a) <=> a <= h)
    <3> SUFFICES ASSUME NEW a \in BusAddress
                 PROVE  (FromFirst(a) <=> d <= a) /\ (UpToLast(a) <=> a <= h)
      OBVIOUS
    <3>1. \A k \in known : k \in Nat /\ d <= k /\ k <= h
      BY <1>1, <1>2, <1>3, <1>6
    <3> QED  BY <1>1, <1>3, <3>1 DEF FromFirst, UpToLast
  <2>5. CASE rotations = 0
    <3>1. rotations' = 1
      BY <2>2, <2>5
    <3>2. ring'.las # "Uninitialized"
      BY <1>1, <2>1, WitnessedPass DEF LasStates, Rings
    <3>3. HeardPart'
      BY <2>4, <1>3 DEF HeardPart, FromFirst
    <3>4. ASSUME ring'.las = "Verification" PROVE HeardEnd'
      <4>1. ring.las = "Discovery"
        BY <1>1, <2>1, <3>4, WitnessedPass DEF LasStates, Rings
      <4>2. ring'.active = updated
        BY <1>4, <4>1
      <4>3. \A k \in known : (\A j \in known : j <= k) => k = h
        BY <1>1, <1>2, <1>3, <1>6
      <4>4. \A a \in updated : a \in BusAddress /\ d <= a /\ a <= h
        <5> SUFFICES ASSUME NEW a \in updated
                     PROVE  a \in BusAddress /\ d <= a /\ a <= h
          OBVIOUS
        <5>1. CASE a = h
          BY <1>1, <1>3, <1>6, <5>1
        <5>2. CASE a # h
          <6>1. a \in BusAddress /\ a \in Nat /\ ~Skips(h, d, a)
            BY <1>1, <1>3, <5>2
          <6> QED  BY <1>3, <2>3, <6>1
        <5> QED  BY <5>1, <5>2
      <4>5. \A a \in updated : FromFirst(a) /\ UpToLast(a)
        BY <2>4, <4>4
      <4> QED  BY <4>2, <4>3, <4>5 DEF HeardEnd, FromFirst, UpToLast
    <3> QED  BY <3>1, <3>2, <3>3, <3>4 DEF ListeningOK
  <2>6. CASE rotations = 1
    <3>1. ring.las # "Uninitialized" /\ HeardPart /\ (ring.las = "Verification" => HeardEnd)
      BY <2>6 DEF IInv, ListeningOK
    <3>2. updated = known
      <4>1. ASSUME NEW a \in BusAddress PROVE a \in updated <=> a \in known
        <5>1. a \in Nat
          BY <1>3
        <5>2. CASE a < d \/ h < a
          BY <1>2, <1>3, <1>6, <2>3, <5>1, <5>2
        <5>3. CASE a = h
          BY <1>1, <5>3
        <5>4. CASE d <= a /\ a < h
          <6>1. a \in ring.active <=> a \in known
            BY <2>4, <3>1, <5>4 DEF HeardPart
          <6> QED  BY <1>3, <2>3, <5>1, <5>4, <6>1
        <5> QED  BY <1>3, <5>1, <5>2, <5>3, <5>4
      <4>2. updated \subseteq BusAddress
        BY <1>1
      <4> QED  BY <1>1, <4>1, <4>2
    <3>3. ring'.las \in {"Verification", "Valid"}
      <4>1. CASE ring.las = "Verification"
        <5>1. h \in ring.active
          BY <1>1, <1>2, <1>6, <3>1, <4>1 DEF HeardEnd
        <5>2. \A a \in ring.active : ~Skips(h, d, a)
          <6> SUFFICES ASSUME NEW a \in ring.active PROVE ~Skips(h, d, a)
            OBVIOUS
          <6>1. a \in BusAddress /\ a \in Nat /\ FromFirst(a) /\ UpToLast(a)
            BY <1>1, <1>3, <3>1, <4>1 DEF HeardEnd
          <6> QED  BY <1>3, <2>3, <2>4, <6>1
        <5>3. updated = ring.active
          BY <5>1, <5>2
        <5>4. VerifyLas(ring, h, d)
          BY <1>1, <3>2, <5>1, <5>2, <5>3 DEF VerifyLas
        <5> QED  BY <1>1, <2>1, <4>1, <5>4, WitnessedPass
      <4>2. CASE ring.las # "Verification"
        BY <1>1, <2>1, <3>1, <4>2, WitnessedPass DEF LasStates, Rings
      <4> QED  BY <4>1, <4>2
    <3>4. rotations' = 2
      BY <2>2, <2>6
    <3> QED  BY <1>4, <3>1, <3>2, <3>3, <3>4 DEF ListeningOK
  <2>7. CASE rotations >= 2
    <3>1. ring.active = known /\ ring.las \in {"Verification", "Valid"}
      BY <2>7 DEF IInv, ListeningOK
    <3>2. VerifyLas(ring, h, d)
      <4> SUFFICES ASSUME NEW a \in known PROVE ~Skips(h, d, a)
        BY <1>1, <3>1 DEF VerifyLas
      <4>1. a \in BusAddress /\ a \in Nat /\ d <= a /\ a <= h
        BY <1>1, <1>2, <1>3, <1>6
      <4> QED  BY <1>3, <2>3, <4>1
    <3>3. updated = known
      BY <3>1, <3>2 DEF VerifyLas
    <3>4. ring'.las = "Valid"
      BY <1>1, <2>1, <3>1, <3>2, WitnessedPass
    <3>5. rotations' = 3
      BY <1>1, <2>2, <2>7
    <3> QED  BY <1>4, <3>1, <3>3, <3>4, <3>5 DEF ListeningOK
  <2> QED  BY <1>1, <2>5, <2>6, <2>7
<1> QED  BY <1>5, <1>6

------------------------------------------------------------------------------
(* The invariant is inductive *)

(* A listener that has heard nothing yet claims nothing. *)
LEMMA InitIInv == Init => IInv
<1> SUFFICES ASSUME Init PROVE IInv
  OBVIOUS
<1>1. ring \in Rings /\ ring.this = Listener /\ Consistent(ring)
  <2>1. NewRing(Listener) \in Rings /\ Consistent(NewRing(Listener))
    BY NewRingType, LasDiscoveryAssumption
  <2>2. NewRing(Listener).this = Listener
    BY DEF NewRing
  <2> QED  BY <2>1, <2>2 DEF Init
<1>2. TypeOK
  BY <1>1 DEF Init, TypeOK
<1> QED  BY <1>2 DEF Init, IInv, ListeningOK

(* A disturbance starts the count anew. *)
LEMMA Disturbed == ASSUME rotations' = 0 PROVE ListeningOK'
BY DEF ListeningOK

(* A token pass within the ring extends what was heard of the rotation, or  *)
(* ends it.                                                                 *)
LEMMA PassTokenOK ==
  ASSUME IInv, PassToken
  PROVE  IInv'
<1>1. /\ holder \in alive /\ holder' \in alive /\ holder' = Successor(holder, known)
      /\ UNCHANGED <<alive, known>> /\ Hear(holder, holder', FALSE)
  BY DEF PassToken
<1>2. /\ ring' \in Rings /\ ring'.this = Listener /\ Consistent(ring')
      /\ rotations' \in 0 .. 3
  BY <1>1, HearType DEF IInv
<1>3. TypeOK'
  BY <1>1, <1>2 DEF IInv, TypeOK
<1>4. CASE rotations' = 0
  BY <1>3, <1>4, Disturbed DEF IInv
<1>5. CASE rotations' # 0
  <2>1. /\ ring' = WitnessTokenPass(ring, holder, holder')
        /\ rotations' = IF WrapsAround(holder, holder') THEN Min({3, rotations + 1})
                                                        ELSE rotations
    BY <1>1, <1>5 DEF Hear
  <2> QED  BY <1>1, <1>3, <2>1, HearPass DEF IInv
<1> QED  BY <1>4, <1>5

(* The token is sent to a station that is gone, or claimed. *)
LEMMA InVainClaimOK ==
  ASSUME IInv, PassTokenInVain \/ Claim
  PROVE  IInv'
<1>1. CASE PassTokenInVain
  <2> DEFINE da == Successor(holder, known)
  <2>1. /\ Hear(holder, da, TRUE) /\ UNCHANGED <<alive, holder>> /\ da \notin alive
        /\ known' \in {known, known \ {da}}
    BY <1>1 DEF PassTokenInVain
  <2> HIDE DEF da
  <2>2. /\ ring' \in Rings /\ ring'.this = Listener /\ Consistent(ring')
        /\ rotations' = 0
    BY <2>1, HearType DEF IInv
  <2>3. alive' \subseteq known' /\ known' \subseteq Others
    BY <2>1 DEF IInv, TypeOK
  <2>4. TypeOK'
    BY <2>1, <2>2, <2>3 DEF IInv, TypeOK
  <2> QED  BY <2>2, <2>4, Disturbed DEF IInv
<1>2. CASE Claim
  <2> DEFINE s == Min(alive)
  <2>1. alive \in SUBSET Nat /\ alive # {}
    BY OthersAreStations DEF IInv, TypeOK, BusAddress
  <2>2. s \in alive
    BY <2>1, MinOfAddresses
  <2>3. Hear(s, s, TRUE) /\ holder' = s /\ UNCHANGED <<alive, known>>
    BY <1>2 DEF Claim
  <2> HIDE DEF s
  <2>4. /\ ring' \in Rings /\ ring'.this = Listener /\ Consistent(ring')
        /\ rotations' = 0
    BY <2>3, HearType DEF IInv
  <2>5. TypeOK'
    BY <2>2, <2>3, <2>4 DEF IInv, TypeOK
  <2> QED  BY <2>4, <2>5, Disturbed DEF IInv
<1> QED  BY <1>1, <1>2

(* A ring that changes is heard anew from the next end of rotation. *)
LEMMA JoinVanishOK ==
  ASSUME IInv, NEW s \in Others, Join(s) \/ Vanish(s)
  PROVE  IInv'
<1>1. rotations' = 0 /\ ring' = ring
  BY DEF Join, Vanish
<1>2. /\ alive' \subseteq known' /\ known' \subseteq Others /\ alive' # {}
      /\ holder' \in alive' \cup {NoHolder}
  BY DEF Join, Vanish, IInv, TypeOK
<1>3. ring' \in Rings /\ ring'.this = Listener /\ Consistent(ring')
  BY <1>1 DEF IInv, TypeOK
<1>4. TypeOK'
  BY <1>1, <1>2, <1>3 DEF TypeOK
<1> QED  BY <1>1, <1>4, Disturbed DEF IInv

(* Every step of the ring keeps the invariant, heard or missed. *)
LEMMA StepIInv == IInv /\ [Next]_vars => IInv'
<1> SUFFICES ASSUME IInv, [Next]_vars PROVE IInv'
  OBVIOUS
<1>1. CASE UNCHANGED vars
  <2>1. UNCHANGED <<ring, alive, known, holder, rotations>>
    BY <1>1 DEF vars
  <2>2. TypeOK'
    BY <2>1 DEF IInv, TypeOK
  <2>3. ListeningOK'
    BY <2>1 DEF IInv, ListeningOK, HeardPart, HeardEnd, FromFirst, UpToLast
  <2> QED  BY <2>2, <2>3 DEF IInv
<1> QED  BY <1>1, PassTokenOK, InVainClaimOK, JoinVanishOK DEF Next

(* What has been heard of a rotation, up to the station with the token, is *)
(* in the LAS, in every reachable state of every ring.                     *)
THEOREM Invariance == Spec => []IInv
BY InitIInv, StepIInv, PTL DEF Spec

(* After two undisturbed ends of rotation a LAS that the listener trusts   *)
(* lists just the stations of the ring, whatever it heard before or missed: *)
(* NS and PS are its neighbours in the ring it is about to be admitted to. *)
THEOREM SettledLasIsRing == Spec => []SettledLasIsTheRing
<1>1. IInv => SettledLasIsTheRing
  <2> SUFFICES ASSUME IInv, rotations >= 2, ring.active = known
               PROVE  /\ ring.next = Successor(Listener, known)
                      /\ ring.prev \in known
                      /\ \A a \in known : ~Skips(ring.prev, Listener, a)
    BY DEF IInv, ListeningOK, SettledLasIsTheRing
  <2>1. /\ ring.next = NextOf(Listener, known) /\ ring.prev = PrevOf(Listener, known)
        /\ Listener \in BusAddress /\ known \in SUBSET BusAddress /\ known # {}
        /\ Listener \notin known
    BY OthersAreStations, LasDiscoveryAssumption DEF IInv, TypeOK, Consistent
  <2>2. ring.prev \in known
    <3> DEFINE below == {a \in known : a < Listener}
    <3>1. below # {} => Max(below) \in below
      BY <2>1, MaxOfAddresses
    <3>2. Max(known) \in known
      BY <2>1, MaxOfAddresses
    <3> QED  BY <2>1, <3>1, <3>2 DEF PrevOf
  <2> QED  BY <2>1, <2>2, PrevOfIsNeighbour DEF Successor
<1> QED  BY <1>1, Invariance, PTL

(* Three undisturbed ends of rotation are enough to have a valid LAS,      *)
(* wherever in a rotation listening began: a verification that started is  *)
(* not upset again by the ring as it is.                                   *)
THEOREM ThreeRotationsSuffice == Spec => []ReadyAfterThreeRotations
<1>1. IInv => ReadyAfterThreeRotations
  BY DEF IInv, ListeningOK, ReadyAfterThreeRotations, ReadyForRing
<1> QED  BY <1>1, Invariance, PTL

==============================================================================
