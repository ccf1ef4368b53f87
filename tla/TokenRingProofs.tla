--------------------------- MODULE TokenRingProofs ---------------------------
(***************************************************************************)
(* What the operators of TokenRing return, for every ring and every pair   *)
(* of addresses: a ring stays a ring, NS and PS are the neighbours in the  *)
(* LAS, and an updated LAS passes the verification that follows.           *)
(***************************************************************************)
EXTENDS TokenRing, WellFoundedInduction, TLAPS

(* A nonempty set of natural numbers has a least element, ... *)
LEMMA LeastElement ==
  ASSUME NEW S \in SUBSET Nat, S # {}
  PROVE  \E m \in S : \A x \in S : m <= x
<1>1. PICK m \in S : \A x \in S : <<x, m>> \notin OpToRel(<, Nat)
  BY WFMin, NatLessThanWellFounded, Zenon
<1>2. \A x \in S : ~ (x < m)
  BY <1>1, Zenon DEF OpToRel
<1> QED  BY <1>2

(* ... which Min chooses. *)
LEMMA MinOfAddresses ==
  ASSUME NEW S \in SUBSET Nat, S # {}
  PROVE  Min(S) \in S /\ \A x \in S : Min(S) <= x
<1>1. \E m \in S : \A x \in S : m <= x
  BY LeastElement
<1> QED  BY <1>1 DEF Min

(* Max chooses the greatest address of a nonempty set of them. *)
LEMMA MaxOfAddresses ==
  ASSUME NEW S \in SUBSET BusAddress, S # {}
  PROVE  Max(S) \in S /\ \A x \in S : Max(S) >= x
<1> DEFINE T == {127 - x : x \in S}
<1>1. T \in SUBSET Nat /\ T # {}
  <2>1. \A x \in S : x \in 0 .. 127
    BY DEF BusAddress
  <2>2. \A x \in 0 .. 127 : 127 - x \in Nat
    OBVIOUS
  <2> QED  BY <2>1, <2>2
<1>2. PICK m \in T : \A y \in T : m <= y
  <2> HIDE DEF T
  <2> QED  BY <1>1, LeastElement
<1>3. PICK g \in S : m = 127 - g
  BY <1>2
<1>4. \A x \in S : g >= x
  <2> TAKE x \in S
  <2>1. 127 - x \in T
    OBVIOUS
  <2>2. 127 - g <= 127 - x
    BY <1>2, <1>3, <2>1
  <2>3. g \in 0 .. 127 /\ x \in 0 .. 127
    BY DEF BusAddress
  <2> QED  BY <2>2, <2>3
<1> QED  BY <1>3, <1>4 DEF Max

------------------------------------------------------------------------------
(* NS is in the LAS, and no active station is between TS and NS. *)
LEMMA NextOfIsNeighbour ==
  ASSUME NEW ts \in BusAddress, NEW active \in SUBSET BusAddress
  PROVE  /\ NextOf(ts, active) \in active \cup {ts}
         /\ \A a \in active : ~Skips(ts, NextOf(ts, active), a)
<1> DEFINE above == {a \in active : a > ts}
<1>0. ts \in Nat /\ active \in SUBSET Nat
  BY DEF BusAddress
<1>1. CASE above # {}
  <2>1. NextOf(ts, active) = Min(above)
    BY <1>1 DEF NextOf
  <2>2. above \in SUBSET BusAddress /\ above \in SUBSET Nat
    BY <1>0
  <2>3. Min(above) \in above /\ \A a \in above : Min(above) <= a
    <3> HIDE DEF above
    <3> QED  BY <1>1, <2>2, MinOfAddresses
  <2> DEFINE m == Min(above)
  <2>4. m \in active /\ m \in Nat /\ m > ts
    BY <1>0, <2>3
  <2>5. \A a \in active : ~Skips(ts, m, a)
    <3>1. \A a \in active : a > ts => m <= a
      BY <2>3
    <3> HIDE DEF m
    <3> TAKE a \in active
    <3>2. a \in Nat
      BY <1>0
    <3> QED  BY <1>0, <2>4, <3>1, <3>2 DEF Skips
  <2> QED  BY <2>1, <2>4, <2>5
<1>2. CASE above = {} /\ active # {}
  <2>1. NextOf(ts, active) = Min(active)
    BY <1>2 DEF NextOf
  <2>2. Min(active) \in active /\ \A a \in active : Min(active) <= a
    BY <1>2, MinOfAddresses DEF BusAddress
  <2> DEFINE m == Min(active)
  <2>3. m \in Nat /\ m <= ts /\ \A a \in active : ~(a > ts)
    <3>1. \A a \in active : ~(a > ts)
      BY <1>2
    <3>2. m \in active
      BY <2>2
    <3> HIDE DEF m
    <3> QED  BY <1>0, <3>1, <3>2
  <2>4. \A a \in active : ~Skips(ts, m, a)
    <3> HIDE DEF m
    <3> TAKE a \in active
    <3>1. a \in Nat /\ m <= a /\ ~(a > ts)
      BY <1>0, <2>2, <2>3 DEF m
    <3> QED  BY <1>0, <2>3, <3>1 DEF Skips
  <2> QED  BY <2>1, <2>2, <2>4
<1>3. CASE active = {}
  BY <1>3 DEF NextOf
<1> QED  BY <1>1, <1>2, <1>3

(* PS is in the LAS, and no active station is between PS and TS. *)
LEMMA PrevOfIsNeighbour ==
  ASSUME NEW ts \in BusAddress, NEW active \in SUBSET BusAddress
  PROVE  /\ PrevOf(ts, active) \in active \cup {ts}
         /\ \A a \in active : ~Skips(PrevOf(ts, active), ts, a)
<1> DEFINE below == {a \in active : a < ts}
<1>0. ts \in Nat /\ active \in SUBSET Nat
  BY DEF BusAddress
<1>1. CASE below # {}
  <2>1. PrevOf(ts, active) = Max(below)
    BY <1>1 DEF PrevOf
  <2>2. below \in SUBSET BusAddress /\ below \in SUBSET Nat
    BY <1>0
  <2>3. Max(below) \in below /\ \A a \in below : Max(below) >= a
    <3> HIDE DEF below
    <3> QED  BY <1>1, <2>2, MaxOfAddresses
  <2> DEFINE m == Max(below)
  <2>4. m \in active /\ m \in Nat /\ m < ts
    BY <1>0, <2>3
  <2>5. \A a \in active : ~Skips(m, ts, a)
    <3>1. \A a \in active : a < ts => m >= a
      BY <2>3
    <3> HIDE DEF m
    <3> TAKE a \in active
    <3>2. a \in Nat
      BY <1>0
    <3> QED  BY <1>0, <2>4, <3>1, <3>2 DEF Skips
  <2> QED  BY <2>1, <2>4, <2>5
<1>2. CASE below = {} /\ active # {}
  <2>1. PrevOf(ts, active) = Max(active)
    BY <1>2 DEF PrevOf
  <2>2. Max(active) \in active /\ \A a \in active : Max(active) >= a
    BY <1>2, MaxOfAddresses DEF BusAddress
  <2> DEFINE m == Max(active)
  <2>3. m \in Nat /\ m >= ts /\ \A a \in active : ~(a < ts)
    <3>1. \A a \in active : ~(a < ts)
      BY <1>2
    <3>2. m \in active
      BY <2>2
    <3> HIDE DEF m
    <3> QED  BY <1>0, <3>1, <3>2
  <2>4. \A a \in active : ~Skips(m, ts, a)
    <3> HIDE DEF m
    <3> TAKE a \in active
    <3>1. a \in Nat /\ m >= a /\ ~(a < ts)
      BY <1>0, <2>2, <2>3 DEF m
    <3> QED  BY <1>0, <2>3, <3>1 DEF Skips
  <2> QED  BY <2>1, <2>2, <2>4
<1>3. CASE active = {}
  BY <1>3 DEF PrevOf
<1> QED  BY <1>1, <1>2, <1>3

------------------------------------------------------------------------------
(* A ring whose NS and PS are those of its LAS. *)
Consistent(r) ==
  r.next = NextOf(r.this, r.active) /\ r.prev = PrevOf(r.this, r.active)

(* update_next_previous() leaves a ring with the neighbours of its LAS. *)
LEMMA WithActiveType ==
  ASSUME NEW r \in Rings, NEW active \in SUBSET BusAddress
  PROVE  LET w == WithActive(r, active) IN
         /\ w \in Rings /\ Consistent(w)
         /\ w.this = r.this /\ w.active = active /\ w.las = r.las
<1>1. r.this \in BusAddress
  BY DEF Rings, StationAddress, BusAddress
<1>2. NextOf(r.this, active) \in BusAddress
  BY <1>1, NextOfIsNeighbour
<1>3. PrevOf(r.this, active) \in BusAddress
  BY <1>1, PrevOfIsNeighbour
<1> QED  BY <1>2, <1>3 DEF WithActive, Rings, Consistent

(* TokenRing::new() makes such a ring. *)
LEMMA NewRingType ==
  ASSUME NEW ts \in StationAddress
  PROVE  NewRing(ts) \in Rings /\ Consistent(NewRing(ts))
<1>1. NextOf(ts, {ts}) = ts
  BY NextOfIsNeighbour DEF StationAddress, BusAddress
<1>2. PrevOf(ts, {ts}) = ts
  BY PrevOfIsNeighbour DEF StationAddress, BusAddress
<1> QED
  BY <1>1, <1>2 DEF NewRing, Rings, Consistent, LasStates, StationAddress, BusAddress

(* A token pass keeps the ring well-formed and its sender in the LAS. *)
LEMMA UpdateLasType ==
  ASSUME NEW r \in Rings, NEW sa \in BusAddress, NEW da \in BusAddress
  PROVE  LET u == UpdateLas(r, sa, da) IN
         /\ u \in Rings /\ Consistent(u)
         /\ u.this = r.this /\ u.las = r.las
         /\ u.active = {a \in r.active : ~Skips(sa, da, a)} \cup {sa}
<1>1. {a \in r.active : ~Skips(sa, da, a)} \cup {sa} \in SUBSET BusAddress
  BY DEF Rings
<1> QED  BY <1>1, WithActiveType DEF UpdateLas

(* A witnessed token pass, of whatever addresses, leaves a ring, keeps NS  *)
(* and PS those of the LAS, and never takes back that a LAS is valid.      *)
THEOREM WitnessKeepsRing ==
  ASSUME NEW r \in Rings, NEW sa, NEW da
  PROVE  LET w == WitnessTokenPass(r, sa, da) IN
         /\ w \in Rings /\ w.this = r.this
         /\ Consistent(r) => Consistent(w)
         /\ ReadyForRing(r) => ReadyForRing(w)
<1>1. CASE ~({sa, da} \subseteq StationAddress)
  BY <1>1 DEF WitnessTokenPass
<1>2. CASE {sa, da} \subseteq StationAddress
  <2> DEFINE u == UpdateLas(r, sa, da)
  <2>0. sa \in BusAddress /\ da \in BusAddress
    BY <1>2 DEF StationAddress, BusAddress
  <2>1. u \in Rings /\ Consistent(u) /\ u.this = r.this /\ u.las = r.las
    BY <2>0, UpdateLasType
  <2> HIDE DEF u
  <2>2. \A l \in LasStates, x \in Rings :
          /\ [x EXCEPT !.las = l] \in Rings
          /\ [x EXCEPT !.las = l].this = x.this
          /\ Consistent(x) => Consistent([x EXCEPT !.las = l])
    BY DEF Rings, Consistent
  <2>3. CASE r.las = "Uninitialized"
    BY <1>2, <2>2, <2>3 DEF WitnessTokenPass, LasStates, Rings, ReadyForRing
  <2>4. CASE r.las = "Discovery"
    <3>1. WitnessTokenPass(r, sa, da)
            = [u EXCEPT !.las = IF WrapsAround(sa, da) THEN "Verification" ELSE @]
      BY <1>2, <2>4 DEF WitnessTokenPass, u
    <3> QED  BY <2>1, <2>2, <2>4, <3>1 DEF LasStates, Rings, ReadyForRing
  <2>5. CASE r.las = "Verification" /\ ~VerifyLas(r, sa, da)
    <3>1. WitnessTokenPass(r, sa, da) = [u EXCEPT !.las = "Discovery"]
      BY <1>2, <2>5 DEF WitnessTokenPass, u
    <3> QED  BY <2>1, <2>2, <2>5, <3>1 DEF LasStates, ReadyForRing
  <2>6. CASE r.las = "Verification" /\ VerifyLas(r, sa, da)
    BY <1>2, <2>2, <2>6 DEF WitnessTokenPass, LasStates, Rings, ReadyForRing
  <2>7. CASE r.las = "Valid"
    <3>1. WitnessTokenPass(r, sa, da) = u
      BY <1>2, <2>7 DEF WitnessTokenPass, u
    <3> QED  BY <2>1, <2>7, <3>1 DEF ReadyForRing
  <2> QED  BY <2>3, <2>4, <2>5, <2>6, <2>7 DEF Rings, LasStates
<1> QED  BY <1>1, <1>2

(* claim_token() keeps the ring well-formed and validates its LAS. *)
LEMMA ClaimKeepsRing ==
  ASSUME NEW r \in Rings
  PROVE  LET w == ClaimTokenRing(r) IN
         w \in Rings /\ w.this = r.this /\ (Consistent(r) => Consistent(w)) /\ ReadyForRing(w)
BY DEF ClaimTokenRing, Rings, Consistent, ReadyForRing, LasStates

(* remove_station() keeps the ring well-formed. *)
LEMMA RemoveKeepsRing ==
  ASSUME NEW r \in Rings, NEW address
  PROVE  LET w == RemoveStation(r, address) IN
         w \in Rings /\ w.this = r.this /\ Consistent(w) /\ w.las = r.las
<1>1. r.active \ {address} \in SUBSET BusAddress
  BY DEF Rings
<1> QED  BY <1>1, WithActiveType DEF RemoveStation

(* A station that answers the GAP poll becomes NS, wherever it is; what    *)
(* was between it and TS leaves the LAS.                                   *)
THEOREM SetNextStationSetsNext ==
  ASSUME NEW r \in Rings, NEW address \in BusAddress
  PROVE  LET w == SetNextStation(r, address) IN
         /\ w \in Rings /\ w.this = r.this /\ Consistent(w) /\ w.las = r.las
         /\ w.next = address
<1> DEFINE q == [r EXCEPT !.active = @ \cup {address}]
           w == SetNextStation(r, address)
<1>1. q \in Rings /\ q.this = r.this /\ q.las = r.las /\ q.active = r.active \cup {address}
  BY DEF Rings
<1>2. r.this \in BusAddress
  BY DEF Rings, StationAddress, BusAddress
<1>3. w = UpdateLas(q, r.this, address)
  BY DEF SetNextStation
<1> HIDE DEF q, w
<1>4. /\ w \in Rings /\ Consistent(w) /\ w.this = r.this /\ w.las = r.las
      /\ w.active = {a \in q.active : ~Skips(r.this, address, a)} \cup {r.this}
  BY <1>1, <1>2, <1>3, UpdateLasType
<1>5. address \in w.active
  BY <1>1, <1>2, <1>4 DEF Skips, BusAddress
<1>6. /\ w.next \in w.active \cup {r.this}
      /\ \A a \in w.active : ~Skips(r.this, w.next, a)
  BY <1>2, <1>4, NextOfIsNeighbour DEF Consistent, Rings
<1>7. w.next = address
  <2>1. w.next \in BusAddress
    BY <1>4 DEF Rings
  <2>2. ~Skips(r.this, w.next, address)
    BY <1>5, <1>6
  <2>3. w.next = r.this \/ ~Skips(r.this, address, w.next)
    BY <1>4, <1>6
  <2> QED  BY <1>2, <2>1, <2>2, <2>3 DEF Skips, BusAddress
<1> QED  BY <1>4, <1>7 DEF w

------------------------------------------------------------------------------
(* A token pass between two stations of the LAS: after update_las() its    *)
(* verification succeeds (test test_las_update_correctness), ...           *)
THEOREM UpdatedLasVerifies ==
  ASSUME NEW r \in Rings, NEW sa \in StationAddress, NEW da \in r.active
  PROVE  VerifyLas(UpdateLas(r, sa, da), sa, da)
<1>1. sa \in BusAddress /\ da \in BusAddress
  BY DEF Rings, StationAddress, BusAddress
<1>2. UpdateLas(r, sa, da).active = {a \in r.active : ~Skips(sa, da, a)} \cup {sa}
  BY <1>1, UpdateLasType
<1>3. ~Skips(sa, da, sa) /\ ~Skips(sa, da, da)
  BY <1>1 DEF Skips, BusAddress
<1> QED  BY <1>2, <1>3 DEF VerifyLas

(* ... and one that the LAS verifies has nothing to update in it: a valid  *)
(* LAS changes only when the ring does.                                    *)
THEOREM VerifiedLasIsKept ==
  ASSUME NEW r \in Rings, Consistent(r),
         NEW sa \in BusAddress, NEW da \in BusAddress, VerifyLas(r, sa, da)
  PROVE  UpdateLas(r, sa, da) = r
<1>1. {a \in r.active : ~Skips(sa, da, a)} \cup {sa} = r.active
  BY DEF VerifyLas
<1> QED  BY <1>1 DEF UpdateLas, WithActive, Consistent, Rings

==============================================================================
