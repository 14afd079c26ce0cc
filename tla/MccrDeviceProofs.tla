-------------------------- MODULE MccrDeviceProofs --------------------------
(* The safety of MccrDevice for any number of devices, clients, paths,      *)
(* contexts, handles and reports.                                           *)
EXTENDS MccrDevice, FiniteSetTheorems, TLAPS

\* Each open a client has not closed holds a reference (others may hold one
\* that nobody will give back).
OpensCover == \A d \in Devices : Cardinality(opened[d]) <= opens[d]

\* The client inside a call keeps its pointer valid until it returns.
CallerKnows ==
  \A d \in Devices : step[d] # "idle" =>
    /\ Knows(caller[d], d)
    /\ step[d] = "closed" => caller[d] \in opened[d]

\* What open and close have obtained or released at each of their steps.
CallShape ==
  \A d \in Devices :
    /\ step[d] = "parsed" => desc[d] # None /\ hid[d] = None /\ ~feature_report[d]
    /\ step[d] = "hid_open" => desc[d] # None /\ hid[d] # None /\ ~feature_report[d]
    /\ step[d] = "closed" => desc[d] = None /\ hid[d] = None /\ ~feature_report[d]

\* A device that is open has a reference from an open.
OpenHolds ==
  \A d \in Devices : step[d] = "idle" /\ desc[d] # None => opens[d] > 0

\* A device being freed, freed or not yet allocated has no reference.
DeadUnreferenced ==
  \A d \in Devices :
    /\ d \in disposing => state[d] = "live"
    /\ d \in disposing \/ state[d] # "live" => refcount[d] = 0

IInv ==
  /\ TypeOK
  /\ RefcountExact
  /\ OpensCover
  /\ CallerKnows
  /\ CallShape
  /\ OpenAllOrNothing
  /\ OpenHolds
  /\ DeadUnreferenced
  /\ HandlesOwned
  /\ ContextRefcount

-----------------------------------------------------------------------------
(* Facts about the sets that are counted. *)

\* A set of clients is finite and counted by a natural number.
LEMMA ClientSets ==
  ASSUME TypeOK, NEW d \in Devices
  PROVE  /\ IsFiniteSet(held[d]) /\ Cardinality(held[d]) \in Nat
         /\ IsFiniteSet(opened[d]) /\ Cardinality(opened[d]) \in Nat
         /\ held[d] # {} => Cardinality(held[d]) > 0
         /\ opened[d] # {} => Cardinality(opened[d]) > 0
<1>1. held[d] \in SUBSET Clients /\ opened[d] \in SUBSET Clients
  BY DEF TypeOK
<1>2. IsFiniteSet(held[d]) /\ IsFiniteSet(opened[d])
  BY <1>1, FS_Subset, ObjectsFinite
<1>3. Cardinality(held[d]) \in Nat /\ Cardinality(opened[d]) \in Nat
  BY <1>2, FS_CardinalityType
<1>4. /\ Cardinality(held[d]) = 0 <=> held[d] = {}
      /\ Cardinality(opened[d]) = 0 <=> opened[d] = {}
  BY <1>2, FS_EmptySet
<1> QED BY <1>2, <1>3, <1>4

\* A device that someone points to, or is inside a call on, is referenced
\* and hence alive.
LEMMA Referenced ==
  ASSUME IInv, NEW d \in Devices,
         held[d] \cup opened[d] # {} \/ step[d] # "idle"
  PROVE  refcount[d] > 0 /\ state[d] = "live" /\ d \notin disposing
<1>1. held[d] \cup opened[d] # {}
  BY DEF IInv, CallerKnows, Knows
<1>2. /\ Cardinality(held[d]) \in Nat /\ Cardinality(opened[d]) \in Nat
      /\ held[d] # {} => Cardinality(held[d]) > 0
      /\ opened[d] # {} => Cardinality(opened[d]) > 0
  BY ClientSets DEF IInv
<1>3. opens[d] \in Nat /\ Cardinality(opened[d]) <= opens[d]
  BY DEF IInv, TypeOK, OpensCover
<1>4. refcount[d] = Cardinality(held[d]) + opens[d]
  BY DEF IInv, RefcountExact
<1>5. refcount[d] > 0
  BY <1>1, <1>2, <1>3, <1>4
<1> QED BY <1>5 DEF IInv, DeadUnreferenced

\* A device without references is closed, no call is inside it and no
\* client points to it.
LEMMA Unreferenced ==
  ASSUME IInv, NEW d \in Devices, refcount[d] = 0
  PROVE  /\ held[d] = {} /\ opened[d] = {} /\ opens[d] = 0 /\ step[d] = "idle"
         /\ desc[d] = None /\ hid[d] = None /\ ~feature_report[d]
<1>1. held[d] = {} /\ opened[d] = {} /\ step[d] = "idle"
  BY Referenced
<1>2. Cardinality(held[d]) \in Nat /\ opens[d] \in Nat
  BY ClientSets DEF IInv, TypeOK
<1>3. opens[d] = 0
  BY <1>2 DEF IInv, RefcountExact
<1>4. desc[d] = None
  BY <1>1, <1>3 DEF IInv, OpenHolds
<1> QED BY <1>1, <1>3, <1>4 DEF IInv, OpenAllOrNothing

-----------------------------------------------------------------------------
(* The initial states. *)

\* The invariant holds when the program starts: nothing is allocated.
LEMMA InitInv == Init => IInv
<1> SUFFICES ASSUME Init PROVE IInv
  OBVIOUS
<1>1. TypeOK
  BY DEF Init, TypeOK, Steps
<1>2. Cardinality({}) = 0
  BY FS_EmptySet
<1>3. RefcountExact /\ OpensCover
  BY <1>2 DEF Init, RefcountExact, OpensCover
<1>4. CallerKnows /\ CallShape /\ OpenAllOrNothing /\ OpenHolds /\ DeadUnreferenced
  BY DEF Init, CallerKnows, CallShape, OpenAllOrNothing, OpenHolds, DeadUnreferenced
<1>5. HandlesOwned
  BY DEF Init, HandlesOwned
<1>6. ContextRefcount
  <2> SUFFICES ASSUME NEW x \in Contexts
               PROVE  ctx_refcount[x] = Cardinality({d \in Devices : desc[d] = x})
                                        + Cardinality({r \in Reports : report[r] = x})
    BY DEF ContextRefcount
  <2>1. {d \in Devices : desc[d] = x} = {} /\ {r \in Reports : report[r] = x} = {}
    BY NoneIsNoObject DEF Init
  <2> QED BY <2>1, <1>2, SMTT(40) DEF Init
<1> QED BY <1>1, <1>3, <1>4, <1>5, <1>6 DEF IInv

-----------------------------------------------------------------------------
(* What does not depend on the variables a step leaves alone.  The parts of  *)
(* IInv speak of the references, the calls, what a device has open, the      *)
(* handles and the contexts.                                                 *)

Counts == RefcountExact /\ OpensCover /\ DeadUnreferenced
Shape  == CallShape /\ OpenAllOrNothing /\ OpenHolds

\* The counts depend on the counters, the owners and the life of the objects.
LEMMA CountsKept ==
  ASSUME Counts, UNCHANGED <<refcount, state, disposing, owners>>
  PROVE  Counts'
BY DEF Counts, RefcountExact, OpensCover, DeadUnreferenced, owners

\* What a device has open depends on its own fields and the progress of calls.
LEMMA ShapeKept ==
  ASSUME Shape, UNCHANGED <<step, desc, hid, feature_report, opens>>
  PROVE  Shape'
BY DEF Shape, CallShape, OpenAllOrNothing, OpenHolds

\* The ownership of handles depends on the handles and on device->hid.
LEMMA HandlesKept ==
  ASSUME HandlesOwned, UNCHANGED <<handles, hid>>
  PROVE  HandlesOwned'
BY DEF HandlesOwned

\* The count of a context depends on the pointers to contexts.
LEMMA ContextsKept ==
  ASSUME ContextRefcount, UNCHANGED <<ctx_refcount, desc, report>>
  PROVE  ContextRefcount'
BY DEF ContextRefcount

\* A caller keeps its pointer when references are only added.
LEMMA CallsKept ==
  ASSUME CallerKnows, UNCHANGED <<step, caller>>,
         \A d \in Devices : held[d] \subseteq held'[d] /\ opened'[d] = opened[d]
  PROVE  CallerKnows'
BY DEF CallerKnows, Knows

\* The invariant, sorted by what its parts depend on.
LEMMA Parts ==
  IInv <=> TypeOK /\ Counts /\ CallerKnows /\ Shape /\ HandlesOwned /\ ContextRefcount
BY DEF IInv, Counts, Shape

-----------------------------------------------------------------------------
(* Steps that create, reference and free devices. *)

\* Readers come and go: nothing of the library changes.
LEMMA StutterStep ==
  ASSUME IInv, UNCHANGED <<objects, openInfo, calls, report, owners>>,
         attached' \subseteq Paths
  PROVE  IInv'
<1>1. TypeOK'
  BY DEF IInv, TypeOK, objects, openInfo, calls, owners
<1>2. Counts' /\ CallerKnows' /\ Shape' /\ HandlesOwned' /\ ContextRefcount'
  BY Parts, CountsKept, CallsKept, ShapeKept, HandlesKept, ContextsKept
     DEF objects, openInfo, calls, owners
<1> QED BY <1>1, <1>2 DEF IInv, Counts, Shape

\* New devices: the slots were unused, so nothing was open and nobody held
\* them; each starts with the one reference of its creator.
LEMMA NewStep ==
  ASSUME IInv, NEW c \in Clients, NEW new \in SUBSET Unused, NEW at \in [new -> attached],
         device_new(c, at)
  PROVE  IInv'
<1> USE DEF device_new
<1>1. DOMAIN at = new
  OBVIOUS
<1>2. \A d \in new :
        /\ d \in Devices /\ state[d] = "unused" /\ refcount[d] = 0
        /\ held[d] = {} /\ opened[d] = {} /\ opens[d] = 0 /\ step[d] = "idle"
        /\ d \notin disposing
  <2> TAKE d \in new
  <2>1. d \in Devices /\ state[d] = "unused"
    BY DEF Unused
  <2>2. refcount[d] = 0 /\ d \notin disposing
    BY <2>1 DEF IInv, DeadUnreferenced
  <2> QED BY <2>1, <2>2, Unreferenced
<1>3. TypeOK'
  <2>1. path' \in [Devices -> Paths \cup {None}]
    BY <1>1 DEF IInv, TypeOK
  <2> QED BY <2>1, <1>1, <1>2 DEF IInv, TypeOK, openInfo, calls
<1>4. Counts'
  <2> SUFFICES ASSUME NEW d \in Devices
               PROVE  /\ refcount'[d] = Cardinality(held'[d]) + opens'[d]
                      /\ Cardinality(opened'[d]) <= opens'[d]
                      /\ d \in disposing' => state'[d] = "live"
                      /\ d \in disposing' \/ state'[d] # "live" => refcount'[d] = 0
    BY DEF Counts, RefcountExact, OpensCover, DeadUnreferenced
  <2>1. CASE d \in new
    <3>1. Cardinality({c}) = 1
      BY FS_Singleton
    <3> QED BY <2>1, <3>1, <1>1, <1>2 DEF IInv, TypeOK, OpensCover
  <2>2. CASE d \notin new
    BY <2>2, <1>1 DEF IInv, TypeOK, RefcountExact, OpensCover, DeadUnreferenced
  <2> QED BY <2>1, <2>2
<1>5. CallerKnows'
  <2>1. \A d \in Devices : held[d] \subseteq held'[d] /\ opened'[d] = opened[d]
    BY <1>1, <1>2 DEF IInv, TypeOK
  <2> QED BY <2>1, CallsKept DEF IInv, calls
<1>6. Shape' /\ HandlesOwned' /\ ContextRefcount'
  BY Parts, ShapeKept, HandlesKept, ContextsKept DEF openInfo, calls
<1> QED BY <1>3, <1>4, <1>5, <1>6 DEF IInv, Counts, Shape

\* mccr_device_ref() is called with a valid pointer: the counter is above 0
\* already and counts the new holder.
LEMMA RefStep ==
  ASSUME IInv, NEW c \in Clients, NEW e \in Clients, NEW d \in Devices,
         mccr_device_ref(c, e, d)
  PROVE  IInv'
<1> USE DEF mccr_device_ref
<1>1. refcount[d] > 0 /\ state[d] = "live" /\ d \notin disposing
  BY Referenced DEF Knows
<1>2. TypeOK'
  BY DEF IInv, TypeOK, openInfo, calls
<1>3. Counts'
  <2> SUFFICES ASSUME NEW f \in Devices
               PROVE  /\ refcount'[f] = Cardinality(held'[f]) + opens'[f]
                      /\ Cardinality(opened'[f]) <= opens'[f]
                      /\ f \in disposing' => state'[f] = "live"
                      /\ f \in disposing' \/ state'[f] # "live" => refcount'[f] = 0
    BY DEF Counts, RefcountExact, OpensCover, DeadUnreferenced
  <2>1. CASE f = d
    <3>1. IsFiniteSet(held[d]) /\ Cardinality(held[d]) \in Nat
      BY ClientSets DEF IInv
    <3>2. Cardinality(held[d] \cup {e}) = Cardinality(held[d]) + 1
      BY <3>1, FS_AddElement
    <3> QED BY <2>1, <3>1, <3>2, <1>1 DEF IInv, TypeOK, RefcountExact, OpensCover
  <2>2. CASE f # d
    BY <2>2 DEF IInv, TypeOK, RefcountExact, OpensCover, DeadUnreferenced
  <2> QED BY <2>1, <2>2
<1>4. CallerKnows'
  <2>1. \A f \in Devices : held[f] \subseteq held'[f] /\ opened'[f] = opened[f]
    BY DEF IInv, TypeOK
  <2> QED BY <2>1, CallsKept DEF IInv, calls
<1>5. Shape' /\ HandlesOwned' /\ ContextRefcount'
  BY Parts, ShapeKept, HandlesKept, ContextsKept DEF openInfo, calls
<1> QED BY <1>2, <1>3, <1>4, <1>5 DEF IInv, Counts, Shape

\* The atomic decrement of a device in use: the object goes to be freed exactly
\* when the counter reaches 0.
LEMMA DropReference ==
  ASSUME IInv, NEW d \in Devices, refcount[d] > 0, state[d] = "live", drop_reference(d)
  PROVE  /\ refcount' \in [Devices -> Nat] /\ disposing' \subseteq Devices
         /\ refcount'[d] = refcount[d] - 1
         /\ DeadUnreferenced'
<1> USE DEF drop_reference
<1>1. refcount' \in [Devices -> Nat] /\ disposing' \subseteq Devices
  BY DEF IInv, TypeOK
<1>2. refcount'[d] = refcount[d] - 1
  BY DEF IInv, TypeOK
<1>3. DeadUnreferenced'
  <2> SUFFICES ASSUME NEW f \in Devices
               PROVE  /\ f \in disposing' => state'[f] = "live"
                      /\ f \in disposing' \/ state'[f] # "live" => refcount'[f] = 0
    BY DEF DeadUnreferenced
  <2>1. CASE f = d
    <3>1. d \notin disposing
      BY DEF IInv, DeadUnreferenced
    <3> QED BY <2>1, <3>1 DEF IInv, TypeOK
  <2>2. CASE f # d
    BY <2>2 DEF IInv, TypeOK, DeadUnreferenced
  <2> QED BY <2>1, <2>2
<1> QED BY <1>1, <1>2, <1>3

\* mccr_device_unref() gives one reference back, also beside a running call of
\* another client.
LEMMA UnrefStep ==
  ASSUME IInv, NEW c \in Clients, NEW d \in Devices, mccr_device_unref(c, d)
  PROVE  IInv'
<1> USE DEF mccr_device_unref
<1>1. refcount[d] > 0 /\ state[d] = "live" /\ d \notin disposing
  BY Referenced
<1>2. /\ refcount' \in [Devices -> Nat] /\ disposing' \subseteq Devices
      /\ refcount'[d] = refcount[d] - 1
      /\ DeadUnreferenced'
  BY <1>1, DropReference
<1>3. TypeOK'
  BY <1>2 DEF IInv, TypeOK, drop_reference, openInfo, calls
<1>4. RefcountExact'
  <2> SUFFICES ASSUME NEW f \in Devices
               PROVE  refcount'[f] = Cardinality(held'[f]) + opens'[f]
    BY DEF RefcountExact
  <2>1. CASE f = d
    <3>1. IsFiniteSet(held[d]) /\ Cardinality(held[d]) \in Nat
      BY ClientSets DEF IInv
    <3>2. Cardinality(held[d] \ {c}) = Cardinality(held[d]) - 1
      BY <3>1, FS_RemoveElement
    <3>3. held'[d] = held[d] \ {c}
      BY DEF IInv, TypeOK
    <3> QED BY <2>1, <3>1, <3>2, <3>3, <1>2 DEF IInv, TypeOK, RefcountExact
  <2>2. CASE f # d
    BY <2>2 DEF IInv, TypeOK, RefcountExact, drop_reference
  <2> QED BY <2>1, <2>2
<1>5. OpensCover'
  BY DEF IInv, OpensCover
<1>6. CallerKnows'
  BY DEF IInv, TypeOK, CallerKnows, Knows, calls
<1>7. Shape' /\ HandlesOwned' /\ ContextRefcount'
  BY Parts, ShapeKept, HandlesKept, ContextsKept DEF openInfo, calls
<1> QED BY <1>2, <1>3, <1>4, <1>5, <1>6, <1>7 DEF IInv, Counts, Shape

\* The end of mccr_device_unref(): the device freed had no reference left.
LEMMA DisposeStep ==
  ASSUME IInv, NEW d \in Devices, dispose(d)
  PROVE  IInv'
<1> USE DEF dispose
<1>1. refcount[d] = 0
  BY DEF IInv, DeadUnreferenced
<1>2. TypeOK'
  BY DEF IInv, TypeOK, openInfo, calls, owners
<1>3. RefcountExact' /\ OpensCover'
  BY DEF IInv, RefcountExact, OpensCover, owners
<1>4. DeadUnreferenced'
  BY <1>1 DEF IInv, TypeOK, DeadUnreferenced
<1>5. CallerKnows' /\ Shape' /\ HandlesOwned' /\ ContextRefcount'
  BY Parts, CallsKept, ShapeKept, HandlesKept, ContextsKept DEF openInfo, calls, owners
<1> QED BY <1>2, <1>3, <1>4, <1>5 DEF IInv, Counts, Shape

-----------------------------------------------------------------------------
(* Open.  The reference that a successful open takes.                        *)

\* A successful open is counted, and by each client that opens.
LEMMA OpenReference ==
  ASSUME IInv, NEW c \in Clients, NEW d \in Devices,
         Knows(c, d) \/ step[d] # "idle", open_reference(c, d)
  PROVE  /\ refcount' \in [Devices -> Nat] /\ opens' \in [Devices -> Nat]
         /\ opened' \in [Devices -> SUBSET Clients]
         /\ opens'[d] > 0 /\ \A f \in Devices \ {d} : opens'[f] = opens[f]
         /\ opened'[d] = opened[d] \cup {c}
         /\ \A f \in Devices : opened[f] \subseteq opened'[f]
         /\ Counts'
<1> USE DEF open_reference
<1>1. refcount[d] > 0 /\ state[d] = "live" /\ d \notin disposing
  BY Referenced DEF Knows
<1>2. /\ refcount' \in [Devices -> Nat] /\ opens' \in [Devices -> Nat]
      /\ opened' \in [Devices -> SUBSET Clients]
      /\ opens'[d] = opens[d] + 1 /\ opens[d] \in Nat
      /\ \A f \in Devices \ {d} : opens'[f] = opens[f]
      /\ opened'[d] = opened[d] \cup {c}
      /\ \A f \in Devices : opened[f] \subseteq opened'[f]
  BY DEF IInv, TypeOK
<1>3. Counts'
  <2> SUFFICES ASSUME NEW f \in Devices
               PROVE  /\ refcount'[f] = Cardinality(held'[f]) + opens'[f]
                      /\ Cardinality(opened'[f]) <= opens'[f]
                      /\ f \in disposing' => state'[f] = "live"
                      /\ f \in disposing' \/ state'[f] # "live" => refcount'[f] = 0
    BY DEF Counts, RefcountExact, OpensCover, DeadUnreferenced
  <2>1. CASE f = d
    <3>1. /\ Cardinality(held[d]) \in Nat
          /\ IsFiniteSet(opened[d]) /\ Cardinality(opened[d]) \in Nat
      BY ClientSets DEF IInv
    <3>2. \/ Cardinality(opened[d] \cup {c}) = Cardinality(opened[d])
          \/ Cardinality(opened[d] \cup {c}) = Cardinality(opened[d]) + 1
      BY <3>1, FS_AddElement
    <3> QED BY <2>1, <3>1, <3>2, <1>1, <1>2 DEF IInv, TypeOK, RefcountExact, OpensCover
  <2>2. CASE f # d
    BY <2>2 DEF IInv, TypeOK, RefcountExact, OpensCover, DeadUnreferenced
  <2> QED BY <2>1, <2>2
<1> QED BY <1>2, <1>3

\* mccr_device_open() of an open device only counts.
LEMMA OpenAgainStep ==
  ASSUME IInv, NEW c \in Clients, NEW d \in Devices, open_again(c, d)
  PROVE  IInv'
<1> USE DEF open_again, CanOpen, MayCall
<1>1. /\ refcount' \in [Devices -> Nat] /\ opens' \in [Devices -> Nat]
      /\ opened' \in [Devices -> SUBSET Clients]
      /\ opens'[d] > 0 /\ \A f \in Devices \ {d} : opens'[f] = opens[f]
      /\ opened'[d] = opened[d] \cup {c}
      /\ \A f \in Devices : opened[f] \subseteq opened'[f]
      /\ Counts'
  BY OpenReference
<1>2. TypeOK'
  BY <1>1 DEF IInv, TypeOK, open_reference, openInfo, calls
<1>3. CallerKnows'
  BY <1>1 DEF IInv, CallerKnows, Knows, open_reference, calls
<1>4. Shape'
  BY <1>1 DEF IInv, Shape, CallShape, OpenAllOrNothing, OpenHolds, openInfo, calls
<1>5. HandlesOwned' /\ ContextRefcount'
  BY Parts, HandlesKept, ContextsKept DEF openInfo
<1> QED BY <1>1, <1>2, <1>3, <1>4, <1>5 DEF IInv, Counts, Shape

-----------------------------------------------------------------------------
(* The contexts: a reference is added or dropped together with a pointer.    *)

DescOf(x)   == {d \in Devices : desc[d] = x}
ReportOf(x) == {r \in Reports : report[r] = x}

\* The pointers to a context are counted by natural numbers.
LEMMA ContextSets ==
  ASSUME NEW x
  PROVE  /\ IsFiniteSet(DescOf(x)) /\ Cardinality(DescOf(x)) \in Nat
         /\ IsFiniteSet(ReportOf(x)) /\ Cardinality(ReportOf(x)) \in Nat
         /\ DescOf(x) # {} => Cardinality(DescOf(x)) > 0
         /\ ReportOf(x) # {} => Cardinality(ReportOf(x)) > 0
<1>1. DescOf(x) \in SUBSET Devices /\ ReportOf(x) \in SUBSET Reports
  BY DEF DescOf, ReportOf
<1>2. IsFiniteSet(DescOf(x)) /\ IsFiniteSet(ReportOf(x))
  BY <1>1, FS_Subset, ObjectsFinite
<1>3. Cardinality(DescOf(x)) \in Nat /\ Cardinality(ReportOf(x)) \in Nat
  BY <1>2, FS_CardinalityType
<1>4. /\ Cardinality(DescOf(x)) = 0 <=> DescOf(x) = {}
      /\ Cardinality(ReportOf(x)) = 0 <=> ReportOf(x) = {}
  BY <1>2, FS_EmptySet
<1> QED BY <1>2, <1>3, <1>4

\* A device gets a new context, which nobody pointed to.
LEMMA ContextAllocated ==
  ASSUME TypeOK, ContextRefcount, NEW d \in Devices, NEW x \in Contexts,
         desc[d] = None, ctx_refcount[x] = 0,
         ctx_refcount' = [ctx_refcount EXCEPT ![x] = 1],
         desc' = [desc EXCEPT ![d] = x], report' = report
  PROVE  ContextRefcount'
<1> SUFFICES ASSUME NEW y \in Contexts
             PROVE  ctx_refcount'[y] = Cardinality(DescOf(y)') + Cardinality(ReportOf(y)')
  BY DEF ContextRefcount, DescOf, ReportOf
<1>1. ctx_refcount[y] = Cardinality(DescOf(y)) + Cardinality(ReportOf(y))
  BY DEF ContextRefcount, DescOf, ReportOf
<1>2. ReportOf(y)' = ReportOf(y)
  BY DEF ReportOf
<1>3. CASE y = x
  <2>1. Cardinality(DescOf(x)) = 0 /\ Cardinality(ReportOf(x)) = 0 /\ DescOf(x) = {}
    BY <1>1, <1>3, ContextSets
  <2>2. DescOf(x)' = {d}
    BY <2>1 DEF DescOf, TypeOK
  <2>3. Cardinality({d}) = 1
    BY FS_Singleton
  <2> QED BY <1>2, <1>3, <2>1, <2>2, <2>3 DEF TypeOK
<1>4. CASE y # x
  <2>1. DescOf(y)' = DescOf(y)
    BY <1>4, NoneIsNoObject DEF DescOf, TypeOK
  <2> QED BY <1>1, <1>2, <1>4, <2>1 DEF TypeOK
<1> QED BY <1>3, <1>4

\* The context of a device is given back with the pointer to it.
LEMMA ContextReleased ==
  ASSUME TypeOK, ContextRefcount, NEW d \in Devices, report' = report,
         device_clear_open_info(d)
  PROVE  ctx_refcount' \in [Contexts -> Nat] /\ ContextRefcount'
<1> USE DEF device_clear_open_info, ctx_unref
<1>1. CASE desc[d] = None
  <2>1. desc' = desc /\ ctx_refcount' = ctx_refcount
    BY <1>1 DEF TypeOK
  <2> QED BY <2>1, ContextsKept DEF TypeOK
<1>2. CASE desc[d] # None
  <2> DEFINE x == desc[d]
  <2>1. x \in Contexts /\ desc' = [desc EXCEPT ![d] = None]
        /\ ctx_refcount' = [ctx_refcount EXCEPT ![x] = @ - 1]
    BY <1>2 DEF TypeOK
  <2>2. \A y \in Contexts :
          ctx_refcount[y] = Cardinality(DescOf(y)) + Cardinality(ReportOf(y))
    BY DEF ContextRefcount, DescOf, ReportOf
  <2>3. IsFiniteSet(DescOf(x)) /\ d \in DescOf(x) /\ Cardinality(DescOf(x)) > 0
        /\ Cardinality(DescOf(x)) \in Nat /\ Cardinality(ReportOf(x)) \in Nat
    BY ContextSets DEF DescOf
  <2>4. ctx_refcount[x] > 0
    BY <2>1, <2>2, <2>3
  <2>5. ctx_refcount' \in [Contexts -> Nat]
    BY <2>1, <2>4 DEF TypeOK
  <2>6. ASSUME NEW y \in Contexts
        PROVE  ctx_refcount'[y] = Cardinality(DescOf(y)') + Cardinality(ReportOf(y)')
    <3>1. ReportOf(y)' = ReportOf(y)
      BY DEF ReportOf
    <3>2. CASE y = x
      <4>1. DescOf(y)' = DescOf(y) \ {d}
        BY <2>1, <3>2, NoneIsNoObject DEF DescOf, TypeOK
      <4>2. Cardinality(DescOf(y) \ {d}) = Cardinality(DescOf(y)) - 1
        BY <2>3, <3>2, FS_RemoveElement
      <4> QED BY <2>1, <2>2, <2>3, <3>1, <3>2, <4>1, <4>2 DEF TypeOK
    <3>3. CASE y # x
      <4>1. DescOf(y)' = DescOf(y)
        BY <2>1, <3>3, NoneIsNoObject DEF DescOf, TypeOK
      <4> QED BY <2>1, <2>2, <3>1, <3>3, <4>1 DEF TypeOK
    <3> QED BY <3>2, <3>3
  <2> QED BY <2>5, <2>6 DEF ContextRefcount, DescOf, ReportOf
<1> QED BY <1>1, <1>2

\* A report is filled or freed together with its reference.
LEMMA ContextBorrowed ==
  ASSUME TypeOK, ContextRefcount, NEW r \in Reports, NEW x \in Contexts,
         report[r] = None, report' = [report EXCEPT ![r] = x], desc' = desc,
         ctx_refcount' = [ctx_refcount EXCEPT ![x] = @ + 1]
  PROVE  ContextRefcount'
<1> SUFFICES ASSUME NEW y \in Contexts
             PROVE  ctx_refcount'[y] = Cardinality(DescOf(y)') + Cardinality(ReportOf(y)')
  BY DEF ContextRefcount, DescOf, ReportOf
<1>1. ctx_refcount[y] = Cardinality(DescOf(y)) + Cardinality(ReportOf(y))
  BY DEF ContextRefcount, DescOf, ReportOf
<1>2. DescOf(y)' = DescOf(y)
  BY DEF DescOf
<1>3. /\ Cardinality(DescOf(y)) \in Nat
      /\ IsFiniteSet(ReportOf(y)) /\ Cardinality(ReportOf(y)) \in Nat
  BY ContextSets
<1>4. CASE y = x
  <2>1. ReportOf(y)' = ReportOf(y) \cup {r} /\ r \notin ReportOf(y)
    BY <1>4, NoneIsNoObject DEF ReportOf, TypeOK
  <2>2. Cardinality(ReportOf(y) \cup {r}) = Cardinality(ReportOf(y)) + 1
    BY <1>3, <2>1, FS_AddElement
  <2> QED BY <1>1, <1>2, <1>3, <1>4, <2>1, <2>2 DEF TypeOK
<1>5. CASE y # x
  <2>1. ReportOf(y)' = ReportOf(y)
    BY <1>5, NoneIsNoObject DEF ReportOf, TypeOK
  <2> QED BY <1>1, <1>2, <1>5, <2>1 DEF TypeOK
<1> QED BY <1>4, <1>5

\* Freeing a swipe report drops the pointer and the reference together.
LEMMA ContextReturned ==
  ASSUME TypeOK, ContextRefcount, NEW r \in Reports, report[r] # None, desc' = desc,
         report' = [report EXCEPT ![r] = None], ctx_refcount' = ctx_unref(report[r])
  PROVE  ctx_refcount' \in [Contexts -> Nat] /\ ContextRefcount'
<1> DEFINE x == report[r]
<1>1. x \in Contexts /\ ctx_refcount' = [ctx_refcount EXCEPT ![x] = @ - 1]
  BY DEF TypeOK, ctx_unref
<1>2. \A y \in Contexts :
        ctx_refcount[y] = Cardinality(DescOf(y)) + Cardinality(ReportOf(y))
  BY DEF ContextRefcount, DescOf, ReportOf
<1>3. IsFiniteSet(ReportOf(x)) /\ r \in ReportOf(x) /\ Cardinality(ReportOf(x)) > 0
      /\ Cardinality(ReportOf(x)) \in Nat /\ Cardinality(DescOf(x)) \in Nat
  BY ContextSets DEF ReportOf
<1>4. ctx_refcount[x] > 0
  BY <1>1, <1>2, <1>3
<1>5. ctx_refcount' \in [Contexts -> Nat]
  BY <1>1, <1>4 DEF TypeOK
<1>6. ASSUME NEW y \in Contexts
      PROVE  ctx_refcount'[y] = Cardinality(DescOf(y)') + Cardinality(ReportOf(y)')
  <2>1. DescOf(y)' = DescOf(y)
    BY DEF DescOf
  <2>2. CASE y = x
    <3>1. ReportOf(y)' = ReportOf(y) \ {r}
      BY <2>2, <1>1, NoneIsNoObject DEF ReportOf, TypeOK
    <3>2. Cardinality(ReportOf(y) \ {r}) = Cardinality(ReportOf(y)) - 1
      BY <1>3, <2>2, FS_RemoveElement
    <3> QED BY <1>1, <1>2, <1>3, <2>1, <2>2, <3>1, <3>2 DEF TypeOK
  <2>3. CASE y # x
    <3>1. ReportOf(y)' = ReportOf(y)
      BY <2>3, <1>1, NoneIsNoObject DEF ReportOf, TypeOK
    <3> QED BY <1>1, <1>2, <2>1, <2>3, <3>1 DEF TypeOK
  <2> QED BY <2>2, <2>3
<1> QED BY <1>5, <1>6 DEF ContextRefcount, DescOf, ReportOf

-----------------------------------------------------------------------------
(* The steps of open and close.                                              *)

\* Whatever open had obtained is given back.
LEMMA ClearOpenInfo ==
  ASSUME IInv, NEW d \in Devices, report' = report, device_clear_open_info(d)
  PROVE  /\ desc' \in [Devices -> Contexts \cup {None}]
         /\ hid' \in [Devices -> Handles \cup {None}]
         /\ feature_report' \in [Devices -> BOOLEAN]
         /\ ctx_refcount' \in [Contexts -> Nat] /\ handles' \subseteq Handles
         /\ desc'[d] = None /\ hid'[d] = None /\ ~feature_report'[d]
         /\ \A f \in Devices \ {d} : /\ desc'[f] = desc[f] /\ hid'[f] = hid[f]
                                     /\ feature_report'[f] = feature_report[f]
         /\ HandlesOwned' /\ ContextRefcount'
<1> USE DEF device_clear_open_info
<1>1. ctx_refcount' \in [Contexts -> Nat] /\ ContextRefcount'
  BY ContextReleased DEF IInv
<1>2. /\ desc' \in [Devices -> Contexts \cup {None}]
      /\ hid' \in [Devices -> Handles \cup {None}]
      /\ feature_report' \in [Devices -> BOOLEAN] /\ handles' \subseteq Handles
      /\ desc'[d] = None /\ hid'[d] = None /\ ~feature_report'[d]
      /\ \A f \in Devices \ {d} : /\ desc'[f] = desc[f] /\ hid'[f] = hid[f]
                                  /\ feature_report'[f] = feature_report[f]
  BY DEF IInv, TypeOK
<1>3. HandlesOwned'
  <2>1. handles = {hid[f] : f \in Devices} \ {None}
        /\ \A f, g \in Devices : hid[f] # None /\ hid[f] = hid[g] => f = g
    BY DEF IInv, HandlesOwned
  <2>2. handles' = {hid'[f] : f \in Devices} \ {None}
    BY <2>1, <1>2
  <2>3. \A f, g \in Devices : hid'[f] # None /\ hid'[f] = hid'[g] => f = g
    BY <2>1, <1>2
  <2> QED BY <2>2, <2>3 DEF HandlesOwned
<1> QED BY <1>1, <1>2, <1>3

\* mccr_device_open(), up to the parsed report descriptor.
LEMMA OpenParseStep ==
  ASSUME IInv, NEW c \in Clients, NEW d \in Devices, open_parse(c, d)
  PROVE  IInv'
<1> USE DEF open_parse, CanOpen, MayCall, Goto
<1>1. PICK x \in Contexts : /\ ctx_refcount[x] = 0
                            /\ ctx_refcount' = [ctx_refcount EXCEPT ![x] = 1]
                            /\ desc' = [desc EXCEPT ![d] = x]
  OBVIOUS
<1>2. TypeOK'
  BY <1>1 DEF IInv, TypeOK, Steps, objects, owners
<1>3. CallerKnows'
  BY DEF IInv, TypeOK, CallerKnows, Knows, owners
<1>4. Shape'
  BY <1>1, NoneIsNoObject
     DEF IInv, TypeOK, Shape, CallShape, OpenAllOrNothing, OpenHolds, owners
<1>5. Counts' /\ HandlesOwned'
  BY Parts, CountsKept, HandlesKept DEF objects
<1>6. ContextRefcount'
  BY <1>1, ContextAllocated DEF IInv
<1> QED BY <1>2, <1>3, <1>4, <1>5, <1>6 DEF IInv, Counts, Shape

\* mccr_device_open(), up to the HID handle: a new handle of no other device.
LEMMA OpenHidStep ==
  ASSUME IInv, NEW c \in Clients, NEW d \in Devices, open_hid(c, d)
  PROVE  IInv'
<1> USE DEF open_hid, Goto
<1>1. PICK h \in Handles \ handles : /\ hid' = [hid EXCEPT ![d] = h]
                                     /\ handles' = handles \cup {h}
  OBVIOUS
<1>2. h # None /\ hid[d] = None
  BY NoneIsNoObject DEF IInv, CallShape
<1>3. TypeOK'
  BY <1>1 DEF IInv, TypeOK, Steps, objects, owners
<1>4. CallerKnows'
  BY DEF IInv, TypeOK, CallerKnows, Knows, owners
<1>5. Shape'
  BY <1>1, <1>2 DEF IInv, TypeOK, Shape, CallShape, OpenAllOrNothing, OpenHolds, owners
<1>6. HandlesOwned'
  <2>1. handles = {hid[f] : f \in Devices} \ {None}
        /\ \A f, g \in Devices : hid[f] # None /\ hid[f] = hid[g] => f = g
    BY DEF IInv, HandlesOwned
  <2>2. hid'[d] = h /\ \A f \in Devices \ {d} : hid'[f] = hid[f]
    BY <1>1 DEF IInv, TypeOK
  <2>3. handles' = {hid'[f] : f \in Devices} \ {None}
    BY <1>1, <1>2, <2>1, <2>2
  <2>4. \A f, g \in Devices : hid'[f] # None /\ hid'[f] = hid'[g] => f = g
    BY <1>1, <2>1, <2>2
  <2> QED BY <2>3, <2>4 DEF HandlesOwned
<1>7. Counts' /\ ContextRefcount'
  BY Parts, CountsKept, ContextsKept DEF objects
<1> QED BY <1>3, <1>4, <1>5, <1>6, <1>7 DEF IInv, Counts, Shape

\* mccr_device_open() succeeds: everything is there, and a reference for it.
LEMMA OpenDoneStep ==
  ASSUME IInv, NEW c \in Clients, NEW d \in Devices, open_done(c, d)
  PROVE  IInv'
<1> USE DEF open_done, Return
<1>1. /\ refcount' \in [Devices -> Nat] /\ opens' \in [Devices -> Nat]
      /\ opened' \in [Devices -> SUBSET Clients]
      /\ opens'[d] > 0 /\ \A f \in Devices \ {d} : opens'[f] = opens[f]
      /\ opened'[d] = opened[d] \cup {c}
      /\ \A f \in Devices : opened[f] \subseteq opened'[f]
      /\ Counts'
  BY OpenReference
<1>2. TypeOK'
  BY <1>1 DEF IInv, TypeOK, Steps, open_reference
<1>3. CallerKnows'
  BY <1>1 DEF IInv, TypeOK, CallerKnows, Knows, open_reference
<1>4. Shape'
  BY <1>1 DEF IInv, TypeOK, Shape, CallShape, OpenAllOrNothing, OpenHolds
<1>5. HandlesOwned' /\ ContextRefcount'
  BY Parts, HandlesKept, ContextsKept
<1> QED BY <1>1, <1>2, <1>3, <1>4, <1>5 DEF IInv, Counts, Shape

\* mccr_device_open() fails midway: everything obtained is given back.
LEMMA OpenFailedStep ==
  ASSUME IInv, NEW c \in Clients, NEW d \in Devices, open_failed(c, d)
  PROVE  IInv'
<1> USE DEF open_failed, Return
<1>1. /\ desc' \in [Devices -> Contexts \cup {None}]
      /\ hid' \in [Devices -> Handles \cup {None}]
      /\ feature_report' \in [Devices -> BOOLEAN]
      /\ ctx_refcount' \in [Contexts -> Nat] /\ handles' \subseteq Handles
      /\ desc'[d] = None /\ hid'[d] = None /\ ~feature_report'[d]
      /\ \A f \in Devices \ {d} : /\ desc'[f] = desc[f] /\ hid'[f] = hid[f]
                                  /\ feature_report'[f] = feature_report[f]
      /\ HandlesOwned' /\ ContextRefcount'
  BY ClearOpenInfo
<1>2. TypeOK'
  BY <1>1 DEF IInv, TypeOK, Steps, objects, owners
<1>3. CallerKnows'
  BY DEF IInv, TypeOK, CallerKnows, Knows, owners
<1>4. Shape'
  BY <1>1 DEF IInv, TypeOK, Shape, CallShape, OpenAllOrNothing, OpenHolds, owners
<1>5. Counts'
  BY Parts, CountsKept DEF objects
<1> QED BY <1>1, <1>2, <1>3, <1>4, <1>5 DEF IInv, Counts, Shape

\* mccr_device_close() of a device that is not open changes nothing of it.
LEMMA CloseNotOpenStep ==
  ASSUME IInv, NEW c \in Clients, NEW d \in Devices, close_not_open(c, d)
  PROVE  IInv'
<1> USE DEF close_not_open, MayCall
<1>1. TypeOK'
  BY DEF IInv, TypeOK, objects, openInfo, calls
<1>2. OpensCover'
  <2> SUFFICES ASSUME NEW f \in Devices
               PROVE  Cardinality(opened'[f]) <= opens'[f]
    BY DEF OpensCover
  <2>1. /\ IsFiniteSet(opened[f]) /\ Cardinality(opened[f]) \in Nat
        /\ Cardinality(opened[f]) <= opens[f] /\ opens[f] \in Nat
    BY ClientSets DEF IInv, OpensCover, TypeOK
  <2>2. CASE f = d
    <3>1. Cardinality(opened[d] \ {c}) = Cardinality(opened[d]) - 1
      BY <2>1, <2>2, FS_RemoveElement
    <3> QED BY <2>1, <2>2, <3>1 DEF IInv, TypeOK
  <2>3. CASE f # d
    BY <2>1, <2>3 DEF IInv, TypeOK
  <2> QED BY <2>2, <2>3
<1>3. RefcountExact' /\ DeadUnreferenced'
  BY DEF IInv, RefcountExact, DeadUnreferenced, objects
<1>4. CallerKnows'
  BY DEF IInv, TypeOK, CallerKnows, Knows, calls
<1>5. Shape' /\ HandlesOwned' /\ ContextRefcount'
  BY Parts, ShapeKept, HandlesKept, ContextsKept DEF openInfo, calls
<1> QED BY <1>1, <1>2, <1>3, <1>4, <1>5 DEF IInv, Counts, Shape

\* mccr_device_close() releases what open obtained.
LEMMA CloseClearStep ==
  ASSUME IInv, NEW c \in Clients, NEW d \in Devices, close_clear(c, d)
  PROVE  IInv'
<1> USE DEF close_clear, Goto, MayCall
<1>1. /\ desc' \in [Devices -> Contexts \cup {None}]
      /\ hid' \in [Devices -> Handles \cup {None}]
      /\ feature_report' \in [Devices -> BOOLEAN]
      /\ ctx_refcount' \in [Contexts -> Nat] /\ handles' \subseteq Handles
      /\ desc'[d] = None /\ hid'[d] = None /\ ~feature_report'[d]
      /\ \A f \in Devices \ {d} : /\ desc'[f] = desc[f] /\ hid'[f] = hid[f]
                                  /\ feature_report'[f] = feature_report[f]
      /\ HandlesOwned' /\ ContextRefcount'
  BY ClearOpenInfo
<1>2. TypeOK'
  BY <1>1 DEF IInv, TypeOK, Steps, objects, owners
<1>3. CallerKnows'
  BY DEF IInv, TypeOK, CallerKnows, Knows, owners
<1>4. Shape'
  BY <1>1 DEF IInv, TypeOK, Shape, CallShape, OpenAllOrNothing, OpenHolds, owners
<1>5. Counts'
  BY Parts, CountsKept DEF objects
<1> QED BY <1>1, <1>2, <1>3, <1>4, <1>5 DEF IInv, Counts, Shape

\* mccr_device_close() then gives back one reference.
LEMMA CloseUnrefStep ==
  ASSUME IInv, NEW c \in Clients, NEW d \in Devices, close_unref(c, d)
  PROVE  IInv'
<1> USE DEF close_unref, Return
<1>1. refcount[d] > 0 /\ state[d] = "live" /\ d \notin disposing
  BY Referenced
<1>2. /\ refcount' \in [Devices -> Nat] /\ disposing' \subseteq Devices
      /\ refcount'[d] = refcount[d] - 1
      /\ DeadUnreferenced'
  BY <1>1, DropReference
<1>3. c \in opened[d]
  BY DEF IInv, CallerKnows
<1>4. /\ IsFiniteSet(opened[d]) /\ Cardinality(opened[d]) \in Nat
      /\ Cardinality(opened[d]) > 0 /\ Cardinality(held[d]) \in Nat
      /\ Cardinality(opened[d]) <= opens[d] /\ opens[d] \in Nat
  BY <1>3, ClientSets DEF IInv, OpensCover, TypeOK
<1>5. opens' \in [Devices -> Nat] /\ opens'[d] = opens[d] - 1
  BY <1>4 DEF IInv, TypeOK
<1>6. TypeOK'
  BY <1>2, <1>5 DEF IInv, TypeOK, Steps, drop_reference, openInfo
<1>7. RefcountExact'
  BY <1>2, <1>4, <1>5 DEF IInv, TypeOK, RefcountExact, drop_reference
<1>8. OpensCover'
  <2> SUFFICES ASSUME NEW f \in Devices
               PROVE  Cardinality(opened'[f]) <= opens'[f]
    BY DEF OpensCover
  <2>1. CASE f = d
    <3>1. Cardinality(opened[d] \ {c}) = Cardinality(opened[d]) - 1
      BY <1>3, <1>4, FS_RemoveElement
    <3> QED BY <1>4, <1>5, <2>1, <3>1 DEF IInv, TypeOK
  <2>2. CASE f # d
    BY <2>2 DEF IInv, TypeOK, OpensCover
  <2> QED BY <2>1, <2>2
<1>9. CallerKnows'
  BY DEF IInv, TypeOK, CallerKnows, Knows
<1>10. Shape'
  BY DEF IInv, TypeOK, Shape, CallShape, OpenAllOrNothing, OpenHolds, openInfo
<1>11. HandlesOwned' /\ ContextRefcount'
  BY Parts, HandlesKept, ContextsKept DEF openInfo
<1> QED BY <1>2, <1>6, <1>7, <1>8, <1>9, <1>10, <1>11 DEF IInv, Counts, Shape

-----------------------------------------------------------------------------
(* Swipe reports.                                                            *)

\* A swipe report takes its reference to the context of the open device.
LEMMA WaitSwipeReportStep ==
  ASSUME IInv, NEW c \in Clients, NEW d \in Devices, NEW r \in Reports,
         mccr_device_wait_swipe_report(c, d, r)
  PROVE  IInv'
<1> USE DEF mccr_device_wait_swipe_report
<1>1. desc[d] \in Contexts
  BY DEF IInv, TypeOK
<1>2. TypeOK'
  BY <1>1 DEF IInv, TypeOK, objects, calls, owners
<1>3. ContextRefcount'
  BY <1>1, ContextBorrowed DEF IInv
<1>4. Counts' /\ CallerKnows' /\ Shape' /\ HandlesOwned'
  BY Parts, CountsKept, CallsKept, ShapeKept, HandlesKept DEF objects, calls, owners
<1> QED BY <1>2, <1>3, <1>4 DEF IInv, Counts, Shape

\* mccr_swipe_report_free(), at any time, also after the close.
LEMMA SwipeReportFreeStep ==
  ASSUME IInv, NEW r \in Reports, mccr_swipe_report_free(r)
  PROVE  IInv'
<1> USE DEF mccr_swipe_report_free
<1>1. ctx_refcount' \in [Contexts -> Nat] /\ ContextRefcount'
  BY ContextReturned DEF IInv
<1>2. TypeOK'
  BY <1>1 DEF IInv, TypeOK, objects, calls, owners
<1>3. Counts' /\ CallerKnows' /\ Shape' /\ HandlesOwned'
  BY Parts, CountsKept, CallsKept, ShapeKept, HandlesKept DEF objects, calls, owners
<1> QED BY <1>1, <1>2, <1>3 DEF IInv, Counts, Shape

-----------------------------------------------------------------------------
(* The invariant, and what follows from it.                                  *)

\* Every step of the program keeps the invariant.
LEMMA NextInv == IInv /\ [Next]_vars => IInv'
<1> SUFFICES ASSUME IInv, [Next]_vars PROVE IInv'
  OBVIOUS
<1>1. ASSUME NEW p \in Paths, Plug(p) \/ Unplug(p) PROVE IInv'
  BY <1>1, StutterStep DEF Plug, Unplug, IInv, TypeOK
<1>2. ASSUME NEW c \in Clients, mccr_device_new(c) PROVE IInv'
  <2>1. PICK p \in attached, d \in Unused : device_new(c, [x \in {d} |-> p])
    BY <1>2 DEF mccr_device_new
  <2>2. {d} \in SUBSET Unused /\ [x \in {d} |-> p] \in [{d} -> attached]
    OBVIOUS
  <2> QED BY <2>1, <2>2, NewStep
<1>3. ASSUME NEW c \in Clients, mccr_enumerate_devices(c) PROVE IInv'
  BY <1>3, NewStep DEF mccr_enumerate_devices
<1>4. ASSUME NEW c \in Clients, NEW d \in Devices, Call(c, d) PROVE IInv'
  BY <1>4, RefStep, UnrefStep, OpenAgainStep, OpenParseStep, OpenHidStep, OpenDoneStep,
     OpenFailedStep, CloseNotOpenStep, CloseClearStep, CloseUnrefStep,
     WaitSwipeReportStep DEF Call
<1>5. ASSUME NEW d \in Devices, dispose(d) PROVE IInv'
  BY <1>5, DisposeStep
<1>6. ASSUME NEW r \in Reports, mccr_swipe_report_free(r) PROVE IInv'
  BY <1>6, SwipeReportFreeStep
<1>7. CASE UNCHANGED vars
  BY <1>7, StutterStep DEF vars, IInv, TypeOK
<1> QED BY <1>1, <1>2, <1>3, <1>4, <1>5, <1>6, <1>7 DEF Next

\* The inductive invariant holds in every reachable state.
THEOREM Invariance == Spec => []IInv
<1> QED BY InitInv, NextInv, PTL DEF Spec

\* The variables keep their types; in particular no reference counter, of a
\* device or of a context, ever drops below 0.
THEOREM TypeCorrect == Spec => []TypeOK
<1>1. IInv => TypeOK
  BY DEF IInv
<1> QED BY Invariance, <1>1, PTL

\* Whatever the clients do in whatever order, none of them touches a device
\* that is being freed or was freed.
THEOREM SafeUse == Spec => []NoUseAfterFree
<1>1. IInv => NoUseAfterFree
  BY Referenced DEF NoUseAfterFree
<1> QED BY Invariance, <1>1, PTL

\* The counter of a device is the number of its holders and of the opens not
\* given back.
THEOREM ExactCounter == Spec => []RefcountExact
<1>1. IInv => RefcountExact
  BY DEF IInv
<1> QED BY Invariance, <1>1, PTL

\* The three assertions of mccr_device_unref() never fail.
THEOREM DisposedClosed == Spec => []DisposeAsserts
<1>1. IInv => DisposeAsserts
  BY Unreferenced DEF IInv, DeadUnreferenced, DisposeAsserts
<1> QED BY Invariance, <1>1, PTL

\* Between calls a device is entirely open or entirely closed.
THEOREM OpenIsAtomic == Spec => []OpenAllOrNothing
<1>1. IInv => OpenAllOrNothing
  BY DEF IInv
<1> QED BY Invariance, <1>1, PTL

\* Every handle of hidapi belongs to exactly one device.
THEOREM NoHandleLeak == Spec => []HandlesOwned
<1>1. IInv => HandlesOwned
  BY DEF IInv
<1> QED BY Invariance, <1>1, PTL

\* A descriptor context lives as long as a device or a swipe report uses it.
THEOREM ContextsLive == Spec => []ContextRefcount
<1>1. IInv => ContextRefcount
  BY DEF IInv
<1> QED BY Invariance, <1>1, PTL
=============================================================================
