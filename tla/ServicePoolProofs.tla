--------------------------- MODULE ServicePoolProofs ---------------------------
(***************************************************************************)
(* What the epochs of an accounting root keep true for every number of     *)
(* processes, managed effects and service attempts.                        *)
(*                                                                         *)
(* An entry is made once, by the one process that is told of it, and what  *)
(* it says (consumed, started, a result) is never taken back, not by the   *)
(* next epoch either (Kept).  So whoever is about to call back or to run   *)
(* is the only one, and it has not happened yet (CallerInv); what happened *)
(* has its entry (EffectInv, AttemptInv); and entries are within capacity  *)
(* because every record is validated before it is published (ValidInv).    *)
(***************************************************************************)
EXTENDS ServicePool, FiniteSetTheorems, TLAPS

\* The managed epoch, current or kept as the predecessor; a common one without a grant.
managedOf(r) == IF r.epoch = "service" THEN r.predecessor ELSE r

\* What the root says of an effect and of an attempt.
Prepared(e) == managedOf(state).epoch = "managed" /\ managedOf(state).entries[e] # None
CalledFor(e) == Prepared(e) /\ managedOf(state).entries[e].consumed
Admitted(a) == state.epoch = "service" /\ state.entries[a] # None
Begun(a) == Admitted(a) /\ state.entries[a].start
Resulted(a) == Admitted(a) /\ state.entries[a].result # None

WithEffect == {"prepared", "callback", "called"}
WithAttempt == {"admitted", "started", "fresh", "consumed", "launching", "ran", "settled"}

ValidInv ==
  /\ state.epoch = "service" => \A a \in Attempt : state.entries[a] # None => AttemptValid(state.entries[a])
  /\ usage(state).dispatch_slots <= capacities(state).dispatch_slots
  /\ usage(state).retained_output_bytes <= Bytes

EffectInv(e) == files[e].callbacks > 0 => files[e].callbacks = 1 /\ CalledFor(e)

AttemptInv(a) ==
  /\ exec[a].runs > 0 => exec[a].runs = 1 /\ Begun(a) /\ ~exec[a].told
  /\ exec[a].told => Begun(a)
  /\ exec[a].exit # None => exec[a].runs = 1
  /\ Resulted(a) => exec[a].runs = 1 /\ exec[a].exit = state.entries[a].result

\* A process that has an effect or an attempt in hand was told of its entry.
CallerInv(p) ==
  /\ pc[p] \in WithEffect => ticket[p] \in Effect /\ Prepared(ticket[p])
  /\ pc[p] = "callback" => CalledFor(ticket[p]) /\ files[ticket[p]].callbacks = 0
  /\ pc[p] \in {"idle", "selected", "open"} => ticket[p] \notin Attempt
  /\ pc[p] \in WithAttempt \union {"claimed"} => ticket[p] \in Attempt
  /\ pc[p] \in WithAttempt \union {"failed"} /\ ticket[p] \in Attempt => Admitted(ticket[p])
  /\ pc[p] \in {"consumed", "launching"} => Begun(ticket[p])
  /\ pc[p] = "launching" => mode[p] = "check" /\ ~exec[ticket[p]].late
  /\ pc[p] \in {"consumed", "launching"} /\ mode[p] = "check" =>
       /\ exec[ticket[p]].runs = 0 /\ ~exec[ticket[p]].told
       /\ exec[ticket[p]].late => expired[p]
  /\ pc[p] = "settled" => Resulted(ticket[p])

\* Nobody else has the same effect or attempt in hand.
Alone(p, q) ==
  /\ pc[p] \in WithEffect /\ pc[q] \in WithEffect /\ ticket[p] = ticket[q] => p = q
  /\ pc[p] \in WithAttempt \union {"failed"} /\ pc[q] \in WithAttempt \union {"failed"}
       /\ ticket[p] = ticket[q] /\ ticket[p] \in Attempt => p = q

IInv ==
  /\ TypeOK
  /\ ValidInv
  /\ \A e \in Effect : EffectInv(e)
  /\ \A a \in Attempt : AttemptInv(a)
  /\ \A p \in Process : CallerInv(p)
  /\ \A p, q \in Process : Alone(p, q)

--------------------------------------------------------------------------------
(* Records                                                                      *)

\* The common epoch under a record, and how many entries are over it.
commonOf(r) == IF managedOf(r).epoch = "managed" THEN managedOf(r).predecessor ELSE managedOf(r)
Effects(r) == IF managedOf(r).epoch = "managed" THEN Cardinality(Entries(managedOf(r))) ELSE 0
Attempts(r) == IF r.epoch = "service" THEN Cardinality(Entries(r)) ELSE 0

LEMMA UsageIs ==
  ASSUME NEW r
  PROVE  /\ usage(r).dispatch_slots = commonOf(r).slots + Effects(r) + Attempts(r)
         /\ usage(r).retained_output_bytes = commonOf(r).retained + Attempts(r)
  BY DEF usage, commonOf, managedOf, Effects, Attempts

LEMMA CapacityIs ==
  ASSUME NEW r \in Record
  PROVE  capacities(r).dispatch_slots = Slots + IF managedOf(r).epoch = "managed" THEN GrantSlots ELSE 0
  BY DEF capacities, managedOf, Record, ManagedEpoch, ServiceEpoch, Common

\* The shape of a record in each epoch.
LEMMA Shape ==
  ASSUME NEW r \in Record
  PROVE  /\ r.epoch \in {"common", "managed", "service"}
         /\ r.epoch = "common" => r \in Common
         /\ r.epoch = "managed" => r \in ManagedEpoch
         /\ r.epoch = "service" => r \in ServiceEpoch
         /\ managedOf(r) \in Common \union ManagedEpoch
         /\ managedOf(r).epoch \in {"common", "managed"}
         /\ managedOf(r).epoch = "common" => managedOf(r) \in Common
         /\ managedOf(r).epoch = "managed" => managedOf(r) \in ManagedEpoch
         /\ commonOf(r) \in Common
  BY DEF Record, Common, ManagedEpoch, ServiceEpoch, managedOf, commonOf

LEMMA EntriesOf ==
  ASSUME NEW r \in ManagedEpoch \union ServiceEpoch
  PROVE  /\ IsFiniteSet(Entries(r)) /\ Cardinality(Entries(r)) \in Nat
         /\ DOMAIN r.entries = (IF r.epoch = "managed" THEN Effect ELSE Attempt)
<1>1. DOMAIN r.entries = (IF r.epoch = "managed" THEN Effect ELSE Attempt)
  BY DEF ManagedEpoch, ServiceEpoch
<1>2. IsFiniteSet(DOMAIN r.entries)
  BY <1>1, ServicePoolAssumption
<1>3. Entries(r) \subseteq DOMAIN r.entries
  BY DEF Entries
<1> QED
  BY <1>1, <1>2, <1>3, FS_Subset, FS_CardinalityType

LEMMA Counted ==
  ASSUME NEW r \in Record
  PROVE  commonOf(r).slots \in Nat /\ commonOf(r).retained \in Nat /\ Effects(r) \in Nat /\ Attempts(r) \in Nat
<1>1. commonOf(r).slots \in Nat /\ commonOf(r).retained \in Nat
  BY Shape, ServicePoolAssumption DEF Common
<1>2. Effects(r) \in Nat
  BY Shape, EntriesOf DEF Effects
<1>3. Attempts(r) \in Nat
  BY Shape, EntriesOf DEF Attempts
<1> QED
  BY <1>1, <1>2, <1>3

\* An entry that is made or changed leaves the epoch with at least as many.
LEMMA EntriesGrow ==
  ASSUME NEW r \in ManagedEpoch \union ServiceEpoch, NEW s \in ManagedEpoch \union ServiceEpoch,
         NEW k \in DOMAIN r.entries, NEW x, x # None, s.entries = [r.entries EXCEPT ![k] = x]
  PROVE  Cardinality(Entries(r)) <= Cardinality(Entries(s))
<1>1. Entries(r) \subseteq Entries(s)
  BY DEF Entries
<1> QED
  BY <1>1, EntriesOf, FS_Subset

\* A new epoch has no entries.
LEMMA NoEntries ==
  ASSUME NEW r, NEW S, r.entries = [k \in S |-> None]
  PROVE  Entries(r) = {} /\ Cardinality(Entries(r)) = 0
  BY FS_EmptySet DEF Entries

\* What a validated record is known to be.
LEMMA Validated ==
  ASSUME NEW r \in Record, _validate(r)
  PROVE  /\ r.epoch = "service" => \A a \in Attempt : r.entries[a] # None => AttemptValid(r.entries[a])
         /\ usage(r).dispatch_slots <= capacities(r).dispatch_slots
         /\ usage(r).retained_output_bytes <= Bytes
<1>1. /\ usage(r).dispatch_slots <= capacities(r).dispatch_slots
      /\ usage(r).retained_output_bytes <= Bytes
  <2>1. {"dispatch_slots", "retained_output_bytes"} \subseteq DOMAIN usage(r)
    BY DEF usage
  <2>2. capacities(r).retained_output_bytes = Bytes
    BY DEF capacities
  <2> QED
    BY <2>1, <2>2 DEF _validate, WithinCapacity
<1>2. ASSUME r.epoch = "service", NEW a \in Attempt, r.entries[a] # None
      PROVE  AttemptValid(r.entries[a])
  <2>1. a \in Entries(r)
    BY <1>2, Shape, EntriesOf DEF Entries, ServiceEpoch
  <2> QED
    BY <1>2, <2>1 DEF _validate
<1> QED
  BY <1>1, <1>2

--------------------------------------------------------------------------------
(* Changes of the journal                                                       *)

\* Nothing an entry says is taken back.
Kept ==
  /\ \A e \in Effect : (Prepared(e) => Prepared(e)') /\ (CalledFor(e) => CalledFor(e)')
  /\ \A a \in Attempt :
       /\ Admitted(a) => Admitted(a)'
       /\ Begun(a) => Begun(a)'
       /\ Resulted(a) => Resulted(a)' /\ state'.entries[a].result = state.entries[a].result

\* UnknownIsFinal, of one step.
Final ==
  /\ usage(state').dispatch_slots >= usage(state).dispatch_slots
  /\ usage(state').retained_output_bytes + (IF state'.epoch = "common" THEN OutputHold ELSE 0)
       >= usage(state).retained_output_bytes
  /\ state'.epoch = state.epoch /\ state.epoch # "common" =>
       \A k \in Entries(state) :
         /\ state'.entries[k] # None
         /\ state.epoch = "service" /\ state.entries[k].unknown => state'.entries[k].state = "UNKNOWN"
         /\ state.epoch = "managed" /\ state.entries[k].settlement = "UNKNOWN" =>
              state'.entries[k] = state.entries[k]

\* A step that leaves the record alone.
LEMMA SameRecord ==
  ASSUME IInv, state' = state
  PROVE  /\ state' \in Record /\ ValidInv' /\ Kept /\ Final
         /\ \A a \in Attempt : Resulted(a)' => Resulted(a)
<1>1. state \in Record /\ ValidInv
  BY DEF IInv, TypeOK
<1>2. ValidInv'
  BY <1>1 DEF ValidInv
<1>3. Kept /\ \A a \in Attempt : Resulted(a)' => Resulted(a)
  BY DEF Kept, Prepared, CalledFor, Admitted, Begun, Resulted
<1>4. usage(state).dispatch_slots \in Nat /\ usage(state).retained_output_bytes \in Nat
  BY <1>1, UsageIs, Counted
<1>5. \A k \in Entries(state) : state.entries[k] # None
  BY DEF Entries
<1>6. ASSUME state.epoch = "service", NEW k \in Entries(state), state.entries[k].unknown
      PROVE  state.entries[k].state = "UNKNOWN"
  <2>1. k \in Attempt
    BY <1>1, <1>6, Shape, EntriesOf DEF Entries
  <2>2. AttemptValid(state.entries[k])
    BY <1>1, <1>5, <1>6, <2>1 DEF ValidInv
  <2> QED
    BY <1>6, <2>2 DEF AttemptValid, EntryState
<1>7. Final
  BY <1>4, <1>5, <1>6, ServicePoolAssumption DEF Final
<1> QED
  BY <1>1, <1>2, <1>3, <1>7

\* The record that starts an epoch.
LEMMA EpochRecord ==
  ASSUME IInv, NEW p \in Process, NEW r,
         \/ StillHead(p, {"common"}) /\ r = NewEpoch(p, "managed", Effect)
         \/ StillHead(p, {"common", "managed"}) /\ r = NewEpoch(p, "service", Attempt)
  PROVE  /\ r \in Record /\ r.epoch # state.epoch
         /\ commonOf(r) = commonOf(state) /\ Effects(r) = Effects(state) /\ Attempts(r) = Attempts(state)
         /\ state.epoch # "service" /\ managedOf(state) = state
         /\ state.epoch = "managed" => managedOf(r) = state
         /\ r.epoch = "service" => managedOf(r) = state
         /\ \A k \in DOMAIN r.entries : r.entries[k] = None
<1>1. head[p] = state /\ state \in Record
  BY DEF StillHead, IInv, TypeOK
<1>2. CASE StillHead(p, {"common"}) /\ r = NewEpoch(p, "managed", Effect)
  <2>1. state \in Common /\ state.epoch = "common"
    BY <1>1, <1>2, Shape DEF StillHead
  <2>2. r = [epoch |-> "managed", predecessor |-> state, entries |-> [k \in Effect |-> None],
             revision |-> state.revision + 1]
    BY <1>1, <1>2 DEF NewEpoch
  <2>3. r \in ManagedEpoch
    BY <2>1, <2>2 DEF ManagedEpoch, Common
  <2>4. Cardinality(Entries(r)) = 0
    BY <2>2, NoEntries
  <2> QED
    BY <2>1, <2>2, <2>3, <2>4 DEF managedOf, commonOf, Effects, Attempts, Record
<1>3. CASE StillHead(p, {"common", "managed"}) /\ r = NewEpoch(p, "service", Attempt)
  <2>1. state \in Common \union ManagedEpoch /\ state.epoch \in {"common", "managed"}
    BY <1>1, <1>3, Shape DEF StillHead
  <2>2. r = [epoch |-> "service", predecessor |-> state, entries |-> [k \in Attempt |-> None],
             revision |-> state.revision + 1]
    BY <1>1, <1>3 DEF NewEpoch
  <2>3. r \in ServiceEpoch
    BY <2>1, <2>2 DEF ServiceEpoch, Common, ManagedEpoch
  <2>4. Cardinality(Entries(r)) = 0
    BY <2>2, NoEntries
  <2> QED
    BY <2>1, <2>2, <2>3, <2>4 DEF managedOf, commonOf, Effects, Attempts, Record
<1> QED
  BY <1>2, <1>3

\* A publication in which the next epoch starts.
LEMMA EpochStep ==
  ASSUME IInv, NEW p \in Process, NEW r, _publish(p, r, "open", "idle"),
         \/ StillHead(p, {"common"}) /\ r = NewEpoch(p, "managed", Effect)
         \/ StillHead(p, {"common", "managed"}) /\ r = NewEpoch(p, "service", Attempt)
  PROVE  /\ state' \in Record /\ ValidInv' /\ Kept /\ Final
         /\ \A a \in Attempt : Resulted(a)' => Resulted(a)
<1>1. CASE state' = state
  BY <1>1, SameRecord
<1>2. CASE state' = r
  <2>1. /\ r \in Record /\ r.epoch # state.epoch
        /\ commonOf(r) = commonOf(state) /\ Effects(r) = Effects(state) /\ Attempts(r) = Attempts(state)
        /\ state.epoch # "service" /\ managedOf(state) = state
        /\ state.epoch = "managed" => managedOf(r) = state
        /\ \A k \in DOMAIN r.entries : r.entries[k] = None
    BY EpochRecord
  <2>2. state \in Record
    BY DEF IInv, TypeOK
  <2>3. ValidInv'
    BY <1>2, <2>1, Validated DEF _publish, ValidInv
  <2>4. Final
    BY <1>2, <2>1, <2>2, UsageIs, Counted, ServicePoolAssumption DEF Final
  <2>5. Kept
    BY <1>2, <2>1, <2>2, Shape DEF Kept, Prepared, CalledFor, Admitted, Begun, Resulted
  <2>6. \A a \in Attempt : ~Resulted(a)'
    <3> SUFFICES ASSUME NEW a \in Attempt, r.epoch = "service" PROVE r.entries[a] = None
      BY <1>2 DEF Resulted, Admitted
    <3>1. a \in DOMAIN r.entries
      BY <2>1, Shape, EntriesOf
    <3> QED
      BY <2>1, <3>1
  <2> QED
    BY <1>2, <2>1, <2>3, <2>4, <2>5, <2>6
<1> QED
  BY <1>1, <1>2 DEF _publish

\* What a publication leaves of the step counters.
LEMMA PublishedSteps ==
  ASSUME TypeOK, NEW p \in Process, NEW r, NEW told \in Steps, NEW failed \in Steps,
         _publish(p, r, told, failed)
  PROVE  /\ pc' \in [Process -> Steps] /\ jammed' \in BOOLEAN
         /\ \A q \in Process \ {p} : pc'[q] = pc[q]
         /\ \/ pc'[p] = told /\ state' = r
            \/ pc'[p] = failed /\ state' \in {r, state}
  BY DEF TypeOK, _publish, Goto

\* A record with one entry made or changed.
Changed(s, k, x) == [s EXCEPT !.entries[k] = x, !.revision = @ + 1]

LEMMA ChangedManaged ==
  ASSUME NEW s \in ManagedEpoch, NEW e \in Effect, NEW entry \in Managed
  PROVE  LET r == Changed(s, e, entry) IN
         /\ r \in ManagedEpoch /\ r.epoch = "managed" /\ r.predecessor = s.predecessor
         /\ r.entries[e] = entry /\ \A x \in Effect \ {e} : r.entries[x] = s.entries[x]
         /\ commonOf(r) = commonOf(s) /\ Attempts(r) = Attempts(s) /\ Effects(r) >= Effects(s)
         /\ Entries(s) \subseteq Entries(r)
<1> DEFINE r == Changed(s, e, entry)
<1> DEFINE t == [s EXCEPT !.entries[e] = entry]
<1>1. t \in ManagedEpoch /\ t.epoch = "managed" /\ t.predecessor = s.predecessor
      /\ t.entries = [s.entries EXCEPT ![e] = entry] /\ t.revision = s.revision
  BY DEF ManagedEpoch
<1>2. r = [t EXCEPT !.revision = s.revision + 1]
  BY DEF ManagedEpoch, Changed
<1> HIDE DEF t, r
<1>3. r \in ManagedEpoch /\ r.epoch = "managed" /\ r.predecessor = s.predecessor
      /\ r.entries = [s.entries EXCEPT ![e] = entry]
  BY <1>1, <1>2 DEF ManagedEpoch
<1>4. r.entries[e] = entry /\ \A x \in Effect \ {e} : r.entries[x] = s.entries[x]
  BY <1>3 DEF ManagedEpoch
<1>5. s.epoch = "managed" /\ e \in DOMAIN s.entries
  BY DEF ManagedEpoch
<1>6. Cardinality(Entries(s)) <= Cardinality(Entries(r))
  BY <1>3, <1>5, EntriesGrow, ServicePoolAssumption
<1>7. Effects(r) >= Effects(s)
  BY <1>3, <1>5, <1>6, EntriesOf DEF Effects, managedOf
<1>8. commonOf(r) = commonOf(s) /\ Attempts(r) = Attempts(s)
  BY <1>3, <1>5 DEF commonOf, managedOf, Attempts
<1>9. Entries(s) \subseteq Entries(r)
  BY <1>3, <1>4, <1>5, ServicePoolAssumption DEF Entries
<1> QED
  BY <1>3, <1>4, <1>7, <1>8, <1>9 DEF r

LEMMA ChangedServed ==
  ASSUME NEW s \in ServiceEpoch, NEW a \in Attempt, NEW entry \in Served
  PROVE  LET r == Changed(s, a, entry) IN
         /\ r \in ServiceEpoch /\ r.epoch = "service" /\ r.predecessor = s.predecessor
         /\ r.entries[a] = entry /\ \A x \in Attempt \ {a} : r.entries[x] = s.entries[x]
         /\ commonOf(r) = commonOf(s) /\ Effects(r) = Effects(s) /\ Attempts(r) >= Attempts(s)
         /\ managedOf(r) = managedOf(s)
         /\ Entries(s) \subseteq Entries(r)
<1> DEFINE r == Changed(s, a, entry)
<1> DEFINE t == [s EXCEPT !.entries[a] = entry]
<1>1. t \in ServiceEpoch /\ t.epoch = "service" /\ t.predecessor = s.predecessor
      /\ t.entries = [s.entries EXCEPT ![a] = entry] /\ t.revision = s.revision
  BY DEF ServiceEpoch
<1>2. r = [t EXCEPT !.revision = s.revision + 1]
  BY DEF ServiceEpoch, Changed
<1> HIDE DEF t, r
<1>3. r \in ServiceEpoch /\ r.epoch = "service" /\ r.predecessor = s.predecessor
      /\ r.entries = [s.entries EXCEPT ![a] = entry]
  BY <1>1, <1>2 DEF ServiceEpoch
<1>4. r.entries[a] = entry /\ \A x \in Attempt \ {a} : r.entries[x] = s.entries[x]
  BY <1>3 DEF ServiceEpoch
<1>5. s.epoch = "service" /\ a \in DOMAIN s.entries
  BY DEF ServiceEpoch
<1>6. Cardinality(Entries(s)) <= Cardinality(Entries(r))
  BY <1>3, <1>5, EntriesGrow, ServicePoolAssumption
<1>7. Attempts(r) >= Attempts(s)
  BY <1>3, <1>5, <1>6, EntriesOf DEF Attempts
<1>8. commonOf(r) = commonOf(s) /\ Effects(r) = Effects(s) /\ managedOf(r) = managedOf(s)
  BY <1>3, <1>5 DEF commonOf, managedOf, Effects
<1>9. Entries(s) \subseteq Entries(r)
  BY <1>3, <1>4, <1>5, ServicePoolAssumption DEF Entries
<1> QED
  BY <1>3, <1>4, <1>7, <1>8, <1>9 DEF r

\* A change of a managed entry that takes nothing back and is not of one UNKNOWN.
LEMMA ManagedChange ==
  ASSUME IInv, NEW p \in Process, NEW e \in Effect, NEW entry \in Managed,
         NEW told \in Steps, NEW failed \in Steps, state.epoch = "managed",
         state.entries[e] # None =>
           (state.entries[e].consumed => entry.consumed) /\ state.entries[e].settlement # "UNKNOWN",
         _change(p, e, entry, told, failed)
  PROVE  /\ state' \in Record /\ ValidInv' /\ Kept /\ Final
         /\ \A a \in Attempt : Resulted(a)' => Resulted(a)
         /\ pc' \in [Process -> Steps] /\ jammed' \in BOOLEAN
         /\ \A q \in Process \ {p} : pc'[q] = pc[q]
         /\ \/ pc'[p] = told /\ Prepared(e)' /\ (entry.consumed => CalledFor(e)')
            \/ pc'[p] = failed
<1> DEFINE r == Changed(state, e, entry)
<1>1. _publish(p, r, told, failed)
  BY DEF _change, Changed
<1>2. state \in ManagedEpoch /\ TypeOK
  BY Shape DEF IInv, TypeOK
<1>3. /\ r \in ManagedEpoch /\ r.epoch = "managed"
      /\ r.entries[e] = entry /\ \A x \in Effect \ {e} : r.entries[x] = state.entries[x]
      /\ commonOf(r) = commonOf(state) /\ Attempts(r) = Attempts(state) /\ Effects(r) >= Effects(state)
      /\ Entries(state) \subseteq Entries(r)
  BY <1>2, ChangedManaged
<1> HIDE DEF r
<1>4. _validate(r)
  BY <1>1 DEF _publish
<1>5. /\ pc' \in [Process -> Steps] /\ jammed' \in BOOLEAN
      /\ \A q \in Process \ {p} : pc'[q] = pc[q]
      /\ \/ pc'[p] = told /\ state' = r
         \/ pc'[p] = failed /\ state' \in {r, state}
  BY <1>1, <1>2, PublishedSteps
<1>6. entry # None
  BY ServicePoolAssumption
<1>7. ASSUME state' = r
      PROVE  /\ state' \in Record /\ ValidInv' /\ Kept /\ Final
             /\ \A a \in Attempt : Resulted(a)' => Resulted(a)
             /\ Prepared(e)' /\ (entry.consumed => CalledFor(e)')
  <2>1. state' \in Record /\ r \in Record /\ state \in Record
    BY <1>2, <1>3, <1>7 DEF Record
  <2>2. ValidInv'
    BY <1>4, <1>7, <2>1, Validated DEF ValidInv
  <2>3. managedOf(state) = state /\ managedOf(state') = r
    BY <1>3, <1>7 DEF managedOf
  <2>4. Prepared(e)' /\ (entry.consumed => CalledFor(e)')
    BY <1>3, <1>6, <1>7, <2>3 DEF Prepared, CalledFor
  <2>5. Kept
    BY <1>3, <1>6, <1>7, <2>3 DEF Kept, Prepared, CalledFor, Admitted, Begun, Resulted
  <2>6. \A a \in Attempt : Resulted(a)' => Resulted(a)
    BY <1>3, <1>7 DEF Resulted, Admitted
  <2>7. /\ usage(state').dispatch_slots >= usage(state).dispatch_slots
        /\ usage(state').retained_output_bytes + (IF state'.epoch = "common" THEN OutputHold ELSE 0)
             >= usage(state).retained_output_bytes
    BY <1>3, <1>7, <2>1, UsageIs, Counted, ServicePoolAssumption
  <2>8. ASSUME NEW k \in Entries(state)
        PROVE  /\ r.entries[k] # None
               /\ state.entries[k].settlement = "UNKNOWN" => r.entries[k] = state.entries[k]
    <3>1. k \in Effect /\ state.entries[k] # None
      BY <1>2, EntriesOf, <2>8 DEF Entries
    <3> QED
      BY <1>3, <1>6, <3>1
  <2>9. Final
    BY <1>3, <1>7, <2>7, <2>8 DEF Final
  <2> QED
    BY <2>1, <2>2, <2>4, <2>5, <2>6, <2>9
<1>8. CASE state' = r
  BY <1>5, <1>7, <1>8
<1>9. CASE state' # r
  BY <1>5, <1>9, SameRecord
<1> QED
  BY <1>8, <1>9

\* A change of an attempt's entry that takes nothing back.
LEMMA ServedChange ==
  ASSUME IInv, NEW p \in Process, NEW a \in Attempt, NEW entry \in Served,
         NEW told \in Steps, NEW failed \in Steps, state.epoch = "service",
         state.entries[a] # None =>
           /\ state.entries[a].start => entry.start
           /\ state.entries[a].unknown => entry.unknown
           /\ state.entries[a].result # None => entry.result = state.entries[a].result,
         _change(p, a, entry, told, failed)
  PROVE  /\ state' \in Record /\ ValidInv' /\ Kept /\ Final
         /\ \A b \in Attempt \ {a} : Resulted(b)' => Resulted(b)
         /\ Resulted(a)' => Resulted(a) \/ (state'.entries[a].result = entry.result /\ entry.result # None)
         /\ pc' \in [Process -> Steps] /\ jammed' \in BOOLEAN
         /\ \A q \in Process \ {p} : pc'[q] = pc[q]
         /\ \/ pc'[p] = told /\ Admitted(a)' /\ state'.entries[a] = entry
            \/ pc'[p] = failed
<1> DEFINE r == Changed(state, a, entry)
<1>1. _publish(p, r, told, failed)
  BY DEF _change, Changed
<1>2. state \in ServiceEpoch /\ TypeOK
  BY Shape DEF IInv, TypeOK
<1>3. /\ r \in ServiceEpoch /\ r.epoch = "service"
      /\ r.entries[a] = entry /\ \A x \in Attempt \ {a} : r.entries[x] = state.entries[x]
      /\ commonOf(r) = commonOf(state) /\ Effects(r) = Effects(state) /\ Attempts(r) >= Attempts(state)
      /\ managedOf(r) = managedOf(state)
      /\ Entries(state) \subseteq Entries(r)
  BY <1>2, ChangedServed
<1> HIDE DEF r
<1>4. _validate(r)
  BY <1>1 DEF _publish
<1>5. /\ pc' \in [Process -> Steps] /\ jammed' \in BOOLEAN
      /\ \A q \in Process \ {p} : pc'[q] = pc[q]
      /\ \/ pc'[p] = told /\ state' = r
         \/ pc'[p] = failed /\ state' \in {r, state}
  BY <1>1, <1>2, PublishedSteps
<1>6. entry # None
  BY ServicePoolAssumption
<1>7. ASSUME state' = r
      PROVE  /\ state' \in Record /\ ValidInv' /\ Kept /\ Final
             /\ \A b \in Attempt \ {a} : Resulted(b)' => Resulted(b)
             /\ Admitted(a)' /\ state'.entries[a] = entry
  <2>1. state' \in Record /\ r \in Record /\ state \in Record
    BY <1>2, <1>3, <1>7 DEF Record
  <2>2. ValidInv'
    BY <1>4, <1>7, <2>1, Validated DEF ValidInv
  <2>4. Admitted(a)' /\ state'.entries[a] = entry
    BY <1>3, <1>6, <1>7 DEF Admitted
  <2>5. Kept
    BY <1>3, <1>6, <1>7 DEF Kept, Prepared, CalledFor, Admitted, Begun, Resulted
  <2>6. \A b \in Attempt \ {a} : Resulted(b)' => Resulted(b)
    BY <1>3, <1>7 DEF Resulted, Admitted
  <2>7. /\ usage(state').dispatch_slots >= usage(state).dispatch_slots
        /\ usage(state').retained_output_bytes + (IF state'.epoch = "common" THEN OutputHold ELSE 0)
             >= usage(state).retained_output_bytes
    BY <1>3, <1>7, <2>1, UsageIs, Counted, ServicePoolAssumption
  <2>8. ASSUME NEW k \in Entries(state)
        PROVE  /\ r.entries[k] # None
               /\ state.entries[k].unknown => r.entries[k].state = "UNKNOWN"
    <3>1. k \in Attempt /\ state.entries[k] # None
      BY <1>2, EntriesOf, <2>8 DEF Entries, ServiceEpoch
    <3>2. r.entries[k] # None /\ (state.entries[k].unknown => r.entries[k].unknown)
      BY <1>3, <1>6, <3>1
    <3>3. AttemptValid(r.entries[k])
      BY <1>3, <1>4, <2>1, <3>1, <3>2, Validated
    <3> QED
      BY <3>2, <3>3 DEF AttemptValid, EntryState
  <2>9. Final
    BY <1>3, <1>7, <2>7, <2>8 DEF Final
  <2> QED
    BY <2>1, <2>2, <2>4, <2>5, <2>6, <2>9
<1>8. CASE state' = r
  <2>1. Resulted(a)' => state'.entries[a].result = entry.result /\ entry.result # None
    BY <1>7, <1>8 DEF Resulted
  <2> QED
    BY <1>5, <1>7, <1>8, <2>1
<1>9. CASE state' # r
  <2>1. state' = state /\ pc'[p] = failed
    BY <1>5, <1>9
  <2>2. /\ state' \in Record /\ ValidInv' /\ Kept /\ Final
        /\ \A b \in Attempt : Resulted(b)' => Resulted(b)
    BY <2>1, SameRecord
  <2> QED
    BY <1>5, <2>1, <2>2
<1> QED
  BY <1>8, <1>9

--------------------------------------------------------------------------------
(* What a step of one process leaves to the others                              *)

\* The processes other than p stay where they are.
Others(p) ==
  \A q \in Process \ {p} :
    pc'[q] = pc[q] /\ ticket'[q] = ticket[q] /\ mode'[q] = mode[q] /\ expired'[q] = expired[q]

\* What p has in hand after the step it had before, or nobody can have had.
HandsKept(p) ==
  /\ pc'[p] \in WithEffect =>
       (pc[p] \in WithEffect /\ ticket'[p] = ticket[p]) \/ ~Prepared(ticket'[p])
  /\ pc'[p] \in WithAttempt \union {"failed"} /\ ticket'[p] \in Attempt =>
       (pc[p] \in WithAttempt \union {"failed"} /\ ticket'[p] = ticket[p]) \/ ~Admitted(ticket'[p])

LEMMA StepKeeps ==
  ASSUME IInv, NEW p \in Process, Kept, Others(p), HandsKept(p), TypeOK', ValidInv',
         \A e \in Effect : EffectInv(e)', \A a \in Attempt : AttemptInv(a)', CallerInv(p)',
         \A q \in Process \ {p} :
           /\ pc[q] = "callback" => files'[ticket[q]].callbacks = files[ticket[q]].callbacks
           /\ pc[q] \in {"consumed", "launching"} =>
                /\ exec'[ticket[q]].runs = exec[ticket[q]].runs
                /\ exec'[ticket[q]].told = exec[ticket[q]].told
                /\ exec'[ticket[q]].late = exec[ticket[q]].late
  PROVE  IInv'
<1>1. ASSUME NEW q \in Process \ {p} PROVE CallerInv(q)'
  <2>1. CallerInv(q)
    BY DEF IInv
  <2>2. pc'[q] = pc[q] /\ ticket'[q] = ticket[q] /\ mode'[q] = mode[q] /\ expired'[q] = expired[q]
    BY DEF Others
  <2>3. /\ pc[q] \in WithEffect => ticket[q] \in Effect
        /\ pc[q] \in WithAttempt \union {"claimed"} => ticket[q] \in Attempt
    BY <2>1 DEF CallerInv
  <2>4. /\ ticket[q] \in Effect /\ Prepared(ticket[q]) => Prepared(ticket[q])'
        /\ ticket[q] \in Effect /\ CalledFor(ticket[q]) => CalledFor(ticket[q])'
        /\ ticket[q] \in Attempt /\ Admitted(ticket[q]) => Admitted(ticket[q])'
        /\ ticket[q] \in Attempt /\ Begun(ticket[q]) => Begun(ticket[q])'
        /\ ticket[q] \in Attempt /\ Resulted(ticket[q]) => Resulted(ticket[q])'
    BY <2>2 DEF Kept, Prepared, CalledFor, Admitted, Begun, Resulted
  <2> QED
    BY <1>1, <2>1, <2>2, <2>3, <2>4 DEF CallerInv, WithEffect, WithAttempt
<1>2. ASSUME NEW x \in Process, NEW y \in Process PROVE Alone(x, y)'
  <2>1. Alone(x, y) /\ CallerInv(x) /\ CallerInv(y)
    BY DEF IInv
  <2> QED
    BY <2>1 DEF Alone, CallerInv, Others, HandsKept
<1> QED
  BY <1>1, <1>2 DEF IInv

LEMMA EffectsStay ==
  ASSUME IInv, Kept, \A e \in Effect : files'[e].callbacks = files[e].callbacks
  PROVE  \A e \in Effect : EffectInv(e)'
  BY DEF IInv, EffectInv, Kept

LEMMA AttemptsStay ==
  ASSUME IInv, Kept,
         \A a \in Attempt : Resulted(a)' => Resulted(a),
         \A a \in Attempt : exec'[a].runs = exec[a].runs /\ exec'[a].told = exec[a].told
                            /\ exec'[a].exit = exec[a].exit
  PROVE  \A a \in Attempt : AttemptInv(a)'
<1> SUFFICES ASSUME NEW a \in Attempt PROVE AttemptInv(a)'
  OBVIOUS
<1>1. AttemptInv(a)
  BY DEF IInv
<1>2. /\ Begun(a) => Begun(a)'
      /\ Resulted(a)' => Resulted(a) /\ state'.entries[a].result = state.entries[a].result
  BY DEF Kept
<1> QED
  BY <1>1, <1>2 DEF AttemptInv

--------------------------------------------------------------------------------
(* The steps that leave the record alone                                        *)

Executor == [claimed : BOOLEAN, start : BOOLEAN, told : BOOLEAN, late : BOOLEAN,
             runs : Nat, exit : Results \union {None}]
Receipts == [start : BOOLEAN, callbacks : Nat, complete : BOOLEAN]

\* A step of p that changes no record and nothing anybody runs or calls back.
LEMMA QuietStep ==
  ASSUME IInv, NEW p \in Process, state' = state, TypeOK', Others(p), HandsKept(p), CallerInv(p)',
         \A e \in Effect : files'[e].callbacks = files[e].callbacks,
         \A a \in Attempt : exec'[a].runs = exec[a].runs /\ exec'[a].told = exec[a].told
                            /\ exec'[a].exit = exec[a].exit /\ exec'[a].late = exec[a].late
  PROVE  IInv' /\ Final
<1>1. /\ ValidInv' /\ Kept /\ Final
      /\ \A a \in Attempt : Resulted(a)' => Resulted(a)
  BY SameRecord
<1>2. (\A e \in Effect : EffectInv(e)') /\ (\A a \in Attempt : AttemptInv(a)')
  BY <1>1, EffectsStay, AttemptsStay
<1>3. \A q \in Process \ {p} : /\ pc[q] = "callback" => ticket[q] \in Effect
                               /\ pc[q] \in {"consumed", "launching"} => ticket[q] \in Attempt
  BY DEF IInv, CallerInv, WithEffect, WithAttempt
<1> QED
  BY <1>1, <1>2, <1>3, StepKeeps

LEMMA SelectStep ==
  ASSUME IInv, NEW p \in Process, select(p)
  PROVE  IInv' /\ Final
<1>1. PICK m \in {"library", "session", "check"} :
        /\ pc[p] = "idle"
        /\ mode' = [mode EXCEPT ![p] = m]
        /\ head' = [head EXCEPT ![p] = state]
        /\ Goto(p, IF m = "library" THEN "open" ELSE "selected")
        /\ UNCHANGED <<state, jammed, lock, ticket, live, expired, files, exec>>
  BY DEF select
<1>2. TypeOK /\ CallerInv(p)
  BY DEF IInv
<1>3. TypeOK'
  BY <1>1, <1>2 DEF TypeOK, Goto, Steps
<1>4. Others(p) /\ HandsKept(p)
  BY <1>1, <1>2 DEF Others, HandsKept, TypeOK, Goto, WithEffect, WithAttempt
<1>5. CallerInv(p)'
  BY <1>1, <1>2 DEF CallerInv, TypeOK, Goto, WithEffect, WithAttempt
<1> QED
  BY <1>1, <1>3, <1>4, <1>5, QuietStep

LEMMA OpenStep ==
  ASSUME IInv, NEW p \in Process, open(p)
  PROVE  IInv' /\ Final
<1>1. TypeOK /\ CallerInv(p)
  BY DEF IInv
<1>2. TypeOK'
  BY <1>1 DEF TypeOK, open, Goto, Steps
<1>3. Others(p) /\ HandsKept(p)
  BY <1>1 DEF Others, HandsKept, TypeOK, open, Goto, WithEffect, WithAttempt
<1>4. CallerInv(p)'
  BY <1>1 DEF CallerInv, TypeOK, open, Goto, WithEffect, WithAttempt
<1> QED
  BY <1>2, <1>3, <1>4, QuietStep DEF open

LEMMA ExpireStep ==
  ASSUME IInv, NEW p \in Process, Expire(p)
  PROVE  IInv' /\ Final
<1>1. TypeOK /\ CallerInv(p)
  BY DEF IInv
<1>2. TypeOK'
  BY <1>1 DEF TypeOK, Expire
<1>3. Others(p) /\ HandsKept(p)
  BY <1>1 DEF Others, HandsKept, TypeOK, Expire
<1>4. CallerInv(p)'
  BY <1>1 DEF CallerInv, TypeOK, Expire, Prepared, CalledFor, Admitted, Begun, Resulted
<1> QED
  BY <1>2, <1>3, <1>4, QuietStep DEF Expire

LEMMA ClaimStep ==
  ASSUME IInv, NEW p \in Process, claim(p)
  PROVE  IInv' /\ Final
<1>1. PICK a \in Attempt :
        /\ pc[p] = "open" /\ mode[p] = "check" /\ ticket[p] = None
        /\ ~exec[a].start /\ ~exec[a].claimed /\ ~expired[p]
        /\ exec' = [exec EXCEPT ![a].claimed = TRUE]
        /\ ticket' = [ticket EXCEPT ![p] = a]
        /\ Goto(p, "claimed")
        /\ UNCHANGED <<state, jammed, lock, head, mode, live, expired, files>>
  BY DEF claim
<1>2. TypeOK /\ CallerInv(p)
  BY DEF IInv
<1>3. exec' \in [Attempt -> Executor]
      /\ \A b \in Attempt : exec'[b].runs = exec[b].runs /\ exec'[b].told = exec[b].told
                            /\ exec'[b].exit = exec[b].exit /\ exec'[b].late = exec[b].late
  BY <1>1, <1>2, ZenonT(120) DEF TypeOK, Executor
<1>4. TypeOK'
  BY <1>1, <1>2, <1>3 DEF TypeOK, Goto, Steps, Executor
<1>5. Others(p) /\ HandsKept(p)
  BY <1>1, <1>2 DEF Others, HandsKept, TypeOK, Goto, WithEffect, WithAttempt
<1>6. CallerInv(p)'
  BY <1>1, <1>2 DEF CallerInv, TypeOK, Goto, WithEffect, WithAttempt
<1> QED
  BY <1>1, <1>3, <1>4, <1>5, <1>6, QuietStep

\* The executor writes START.json.
LEMMA WriteStartStep ==
  ASSUME IInv, NEW p \in Process, WriteStart(p)
  PROVE  IInv' /\ Final
<1>1. TypeOK /\ CallerInv(p)
  BY DEF IInv
<1>2. pc[p] = "admitted" /\ ticket[p] \in Attempt
  BY <1>1 DEF WriteStart, CallerInv, WithAttempt
<1>3. exec' \in [Attempt -> Executor]
      /\ \A b \in Attempt : exec'[b].runs = exec[b].runs /\ exec'[b].told = exec[b].told
                            /\ exec'[b].exit = exec[b].exit /\ exec'[b].late = exec[b].late
  <2> DEFINE a == ticket[p]
  <2>1. a \in Attempt /\ exec \in [Attempt -> Executor] /\ exec' = [exec EXCEPT ![a].start = TRUE]
    BY <1>1, <1>2 DEF WriteStart, TypeOK, Executor
  <2> HIDE DEF a
  <2> QED
    BY <2>1 DEF Executor
<1>4. TypeOK'
  BY <1>1, <1>3 DEF WriteStart, TypeOK, Goto, Steps, Executor
<1>5. Others(p) /\ HandsKept(p)
  BY <1>1, <1>2 DEF WriteStart, Others, HandsKept, TypeOK, Goto, WithEffect, WithAttempt
<1>6. CallerInv(p)'
  BY <1>1, <1>2 DEF WriteStart, CallerInv, TypeOK, Goto, WithEffect, WithAttempt, Admitted
<1> QED
  BY <1>3, <1>4, <1>5, <1>6, QuietStep DEF WriteStart

LEMMA FreshStep ==
  ASSUME IInv, NEW p \in Process, fresh(p)
  PROVE  IInv' /\ Final
<1>1. TypeOK /\ CallerInv(p)
  BY DEF IInv
<1>2. TypeOK'
  BY <1>1 DEF TypeOK, fresh, Goto, Steps
<1>3. Others(p) /\ HandsKept(p)
  BY <1>1 DEF Others, HandsKept, TypeOK, fresh, Goto, WithEffect, WithAttempt
<1>4. CallerInv(p)'
  BY <1>1 DEF CallerInv, TypeOK, fresh, Goto, WithEffect, WithAttempt, Admitted
<1> QED
  BY <1>2, <1>3, <1>4, QuietStep DEF fresh

LEMMA FailStep ==
  ASSUME IInv, NEW p \in Process, fail(p)
  PROVE  IInv' /\ Final
<1>1. TypeOK /\ CallerInv(p)
  BY DEF IInv
<1>2. TypeOK'
  BY <1>1 DEF TypeOK, fail, Goto, Steps
<1>3. None \notin Attempt
  BY ServicePoolAssumption
<1>4. Others(p) /\ HandsKept(p)
  BY <1>1, <1>3 DEF Others, HandsKept, CallerInv, TypeOK, fail, Goto, WithEffect, WithAttempt, Holding
<1>5. CallerInv(p)'
  BY <1>1, <1>3 DEF CallerInv, TypeOK, fail, Goto, WithEffect, WithAttempt, Holding, Admitted
<1> QED
  BY <1>2, <1>4, <1>5, QuietStep DEF fail

\* A call that ends has nothing in hand.
LEMMA Left ==
  ASSUME IInv, NEW p \in Process, Leave(p), pc' \in [Process -> Steps], pc'[p] = "idle",
         \A q \in Process \ {p} : pc'[q] = pc[q]
  PROVE  /\ Others(p) /\ HandsKept(p) /\ CallerInv(p)'
         /\ state' \in Record /\ jammed' \in BOOLEAN => TypeOK'
<1>1. TypeOK
  BY DEF IInv
<1>2. Others(p)
  BY <1>1 DEF Leave, Others, TypeOK
<1>3. HandsKept(p)
  BY DEF HandsKept, WithEffect, WithAttempt
<1>4. None \notin Attempt /\ ticket'[p] = None
  BY <1>1, ServicePoolAssumption DEF Leave, TypeOK
<1>5. CallerInv(p)'
  BY <1>4 DEF CallerInv, WithEffect, WithAttempt
<1>6. state' \in Record /\ jammed' \in BOOLEAN => TypeOK'
  BY <1>1 DEF Leave, TypeOK
<1> QED
  BY <1>2, <1>3, <1>5, <1>6

LEMMA GoneStep ==
  ASSUME IInv, NEW p \in Process, Gone(p)
  PROVE  IInv' /\ Final
<1>1. TypeOK /\ Leave(p) /\ state' = state /\ jammed' = jammed
  BY DEF IInv, Gone
<1>2. pc' \in [Process -> Steps] /\ pc'[p] = "idle" /\ \A q \in Process \ {p} : pc'[q] = pc[q]
  BY <1>1 DEF Gone, Goto, TypeOK, Steps
<1>3. Others(p) /\ HandsKept(p) /\ CallerInv(p)' /\ TypeOK'
  BY <1>1, <1>2, Left DEF TypeOK
<1>4. files' = files /\ exec' = exec
  BY <1>1 DEF Leave
<1> QED
  BY <1>1, <1>3, <1>4, QuietStep

\* Engineer writes START.json and COMPLETE.json of a managed attempt.
LEMMA WriteManagedStartStep ==
  ASSUME IInv, NEW p \in Process, WriteManagedStart(p)
  PROVE  IInv' /\ Final
<1>1. TypeOK /\ CallerInv(p)
  BY DEF IInv
<1>2. files' \in [Effect -> Receipts] /\ \A e \in Effect : files'[e].callbacks = files[e].callbacks
  BY <1>1, ZenonT(120) DEF WriteManagedStart, TypeOK, Receipts
<1>3. TypeOK'
  BY <1>1, <1>2 DEF WriteManagedStart, TypeOK, me, Receipts
<1>4. Others(p) /\ HandsKept(p)
  BY <1>1 DEF WriteManagedStart, Others, HandsKept, TypeOK, me
<1>5. CallerInv(p)'
  BY <1>1, <1>2 DEF CallerInv, TypeOK, WriteManagedStart, me, WithEffect, WithAttempt, Prepared
<1> QED
  BY <1>2, <1>3, <1>4, <1>5, QuietStep DEF WriteManagedStart

LEMMA WriteCompleteStep ==
  ASSUME IInv, NEW p \in Process, WriteComplete(p)
  PROVE  IInv' /\ Final
<1>1. TypeOK /\ CallerInv(p)
  BY DEF IInv
<1>2. pc[p] = "called" /\ ticket[p] \in Effect /\ ticket[p] \notin Attempt
  BY <1>1, ServicePoolAssumption DEF WriteComplete, CallerInv, WithEffect
<1>3. files' \in [Effect -> Receipts] /\ \A e \in Effect : files'[e].callbacks = files[e].callbacks
  BY <1>1, <1>2, ZenonT(120) DEF WriteComplete, TypeOK, Receipts
<1>4. TypeOK'
  BY <1>1, <1>3 DEF WriteComplete, TypeOK, Receipts, Goto, Steps
<1>5. Others(p) /\ HandsKept(p)
  BY <1>1 DEF WriteComplete, Others, HandsKept, TypeOK, Goto, WithEffect, WithAttempt
<1>6. CallerInv(p)'
  BY <1>1, <1>2 DEF CallerInv, TypeOK, WriteComplete, Goto, WithEffect, WithAttempt
<1> QED
  BY <1>3, <1>4, <1>5, <1>6, QuietStep DEF WriteComplete

--------------------------------------------------------------------------------
(* The callback and the executor                                                *)

LEMMA CallbackStep ==
  ASSUME IInv, NEW p \in Process, Callback(p)
  PROVE  IInv' /\ Final
<1> DEFINE e == ticket[p]
<1>1. TypeOK /\ CallerInv(p)
  BY DEF IInv
<1>2. /\ pc[p] = "callback" /\ e \in Effect /\ Prepared(e) /\ CalledFor(e) /\ files[e].callbacks = 0
      /\ e \notin Attempt
  BY <1>1, ServicePoolAssumption DEF Callback, CallerInv, WithEffect
<1>3. files \in [Effect -> Receipts] /\ files' = [files EXCEPT ![e].callbacks = @ + 1]
  BY <1>1 DEF TypeOK, Callback, Receipts
<1>4. ticket' = ticket /\ exec' = exec /\ mode' = mode /\ expired' = expired
  BY DEF Callback
<1>5. /\ ValidInv' /\ Kept /\ Final
      /\ \A a \in Attempt : Resulted(a)' => Resulted(a)
  BY SameRecord DEF Callback
<1>6. CallerInv(p)'
  BY <1>1, <1>2 DEF CallerInv, TypeOK, Callback, Goto, WithEffect, WithAttempt, Prepared
<1>7. Others(p) /\ HandsKept(p)
  BY <1>1, <1>2 DEF Callback, Others, HandsKept, TypeOK, Goto, WithEffect, WithAttempt
<1>8. \A q \in Process \ {p} : pc[q] = "callback" => ticket[q] \in Effect /\ ticket[q] # e
  BY <1>2 DEF IInv, Alone, CallerInv, WithEffect
<1> HIDE DEF e
<1>9. /\ files' \in [Effect -> Receipts] /\ files'[e].callbacks = 1
      /\ \A x \in Effect \ {e} : files'[x].callbacks = files[x].callbacks
  BY <1>2, <1>3 DEF Receipts
<1>10. TypeOK'
  BY <1>1, <1>9 DEF Callback, TypeOK, Receipts, Goto, Steps
<1>11. \A x \in Effect : EffectInv(x)'
  BY <1>2, <1>5, <1>9 DEF IInv, EffectInv, Kept
<1>12. \A a \in Attempt : AttemptInv(a)'
  BY <1>4, <1>5, AttemptsStay
<1> QED
  BY <1>4, <1>5, <1>6, <1>7, <1>8, <1>9, <1>10, <1>11, <1>12, StepKeeps

\* A run of an attempt that has started, has not run, and is not announced any more.
LEMMA RunEffect ==
  ASSUME IInv, NEW a \in Attempt, Begun(a), exec[a].runs = 0, Run(a), state' = state
  PROVE  /\ exec' \in [Attempt -> Executor]
         /\ \A b \in Attempt \ {a} : exec'[b] = exec[b]
         /\ \A b \in Attempt : AttemptInv(b)'
<1>1. PICK r \in Results : exec' = [exec EXCEPT ![a].runs = @ + 1, ![a].exit = r, ![a].told = FALSE]
  BY DEF Run
<1>2. exec \in [Attempt -> Executor]
  BY DEF IInv, TypeOK, Executor
<1> DEFINE x == exec[a]
           y == [x EXCEPT !.runs = x.runs + 1]
           z == [y EXCEPT !.exit = r]
           w == [z EXCEPT !.told = FALSE]
<1>3. x \in Executor /\ x.runs = 0
  BY <1>2
<1>4. exec' = [exec EXCEPT ![a] = w]
  BY <1>1, <1>2 DEF Executor
<1> HIDE DEF x
<1>5. y \in Executor /\ y.runs = 1
  BY <1>3 DEF Executor
<1> HIDE DEF y
<1>6. z \in Executor /\ z.runs = 1 /\ z.exit = r
  BY <1>5 DEF Executor
<1> HIDE DEF z
<1>7. w \in Executor /\ w.runs = 1 /\ w.exit = r /\ w.told = FALSE
  BY <1>6 DEF Executor
<1> HIDE DEF w
<1>8. /\ exec' \in [Attempt -> Executor] /\ exec'[a] = w
      /\ \A b \in Attempt \ {a} : exec'[b] = exec[b]
  BY <1>2, <1>4, <1>7
<1>9. ~Resulted(a) /\ Begun(a)' /\ ~Resulted(a)'
  BY DEF IInv, AttemptInv, Begun, Resulted, Admitted
<1>10. AttemptInv(a)'
  BY <1>7, <1>8, <1>9 DEF AttemptInv
<1>11. ASSUME NEW b \in Attempt \ {a} PROVE AttemptInv(b)'
  <2>1. AttemptInv(b) /\ exec'[b] = exec[b]
    BY <1>8 DEF IInv
  <2> QED
    BY <2>1 DEF AttemptInv, Begun, Resulted, Admitted
<1> QED
  BY <1>8, <1>10, <1>11

LEMMA BeforeLaunchStep ==
  ASSUME IInv, NEW p \in Process, before_launch(p)
  PROVE  IInv' /\ Final
<1>1. TypeOK /\ CallerInv(p)
  BY DEF IInv
<1>2. /\ pc[p] = "consumed" /\ mode[p] = "check" /\ ~expired[p] /\ Goto(p, "launching")
      /\ UNCHANGED <<state, jammed, lock, head, mode, ticket, live, expired, files, exec>>
  BY DEF before_launch
<1>3. CallerInv(p)'
  BY <1>1, <1>2 DEF CallerInv, TypeOK, Goto, WithEffect, WithAttempt, Admitted, Begun
<1>4. Others(p) /\ HandsKept(p)
  BY <1>1, <1>2 DEF Others, HandsKept, TypeOK, Goto, WithEffect, WithAttempt
<1>5. TypeOK'
  BY <1>1, <1>2 DEF TypeOK, Goto, Steps
<1> QED
  BY <1>2, <1>3, <1>4, <1>5, QuietStep

LEMMA ExecuteStep ==
  ASSUME IInv, NEW p \in Process, _execute(p)
  PROVE  IInv' /\ Final
<1> DEFINE a == ticket[p]
<1>1. TypeOK /\ CallerInv(p)
  BY DEF IInv
<1>2. pc[p] = "launching" /\ mode[p] = "check" /\ a \in Attempt /\ Begun(a) /\ exec[a].runs = 0
  BY <1>1 DEF _execute, CallerInv, WithAttempt
<1>3. Run(a) /\ state' = state /\ ticket' = ticket /\ files' = files
  BY DEF _execute
<1>4. CallerInv(p)'
  BY <1>1, <1>2 DEF CallerInv, TypeOK, _execute, Goto, WithEffect, WithAttempt, Admitted
<1>5. Others(p) /\ HandsKept(p)
  BY <1>1, <1>2 DEF _execute, Others, HandsKept, TypeOK, Goto, WithEffect, WithAttempt
<1>6. \A q \in Process \ {p} : pc[q] \in {"consumed", "launching"} => ticket[q] \in Attempt /\ ticket[q] # a
  BY <1>2 DEF IInv, Alone, CallerInv, WithAttempt
<1> HIDE DEF a
<1>7. /\ exec' \in [Attempt -> Executor]
      /\ \A b \in Attempt \ {a} : exec'[b] = exec[b]
      /\ \A b \in Attempt : AttemptInv(b)'
  BY <1>2, <1>3, RunEffect
<1>8. ValidInv' /\ Kept /\ Final
  BY <1>3, SameRecord
<1>9. TypeOK'
  BY <1>1, <1>7 DEF _execute, TypeOK, Executor, Goto, Steps
<1>10. \A e \in Effect : EffectInv(e)'
  BY <1>3, <1>8, EffectsStay
<1> QED
  BY <1>3, <1>4, <1>5, <1>6, <1>7, <1>8, <1>9, <1>10, StepKeeps

\* The steps that are no process's own: what every process has in hand stays as it is.
LEMMA NobodyMoves ==
  ASSUME IInv, Kept, pc' = pc, ticket' = ticket, mode' = mode, expired' = expired, files' = files,
         \A p \in Process : pc[p] \in {"consumed", "launching"} /\ mode[p] = "check" =>
           exec'[ticket[p]] = exec[ticket[p]]
  PROVE  (\A p \in Process : CallerInv(p)') /\ (\A p, q \in Process : Alone(p, q)')
<1>1. ASSUME NEW p \in Process PROVE CallerInv(p)'
  <2>1. CallerInv(p)
    BY DEF IInv
  <2>2. /\ ticket[p] \in Effect /\ Prepared(ticket[p]) => Prepared(ticket[p])'
        /\ ticket[p] \in Effect /\ CalledFor(ticket[p]) => CalledFor(ticket[p])'
        /\ ticket[p] \in Attempt /\ Admitted(ticket[p]) => Admitted(ticket[p])'
        /\ ticket[p] \in Attempt /\ Begun(ticket[p]) => Begun(ticket[p])'
        /\ ticket[p] \in Attempt /\ Resulted(ticket[p]) => Resulted(ticket[p])'
    BY DEF Kept, Prepared, CalledFor, Admitted, Begun, Resulted
  <2> QED
    BY <2>1, <2>2 DEF CallerInv, WithEffect, WithAttempt
<1>2. \A p, q \in Process : Alone(p, q)'
  BY DEF IInv, Alone
<1> QED
  BY <1>1, <1>2

LEMMA LaunchStep ==
  ASSUME IInv, NEW a \in Attempt, Launch(a)
  PROVE  IInv' /\ Final
<1>1. exec[a].told /\ Run(a) /\ state' = state /\ files' = files
      /\ pc' = pc /\ ticket' = ticket /\ mode' = mode /\ expired' = expired
  BY DEF Launch, me
<1>2. Begun(a) /\ exec[a].runs = 0
  <2>1. AttemptInv(a) /\ exec[a].runs \in Nat
    BY DEF IInv, TypeOK
  <2> QED
    BY <1>1, <2>1 DEF AttemptInv
<1>3. /\ exec' \in [Attempt -> Executor]
      /\ \A b \in Attempt \ {a} : exec'[b] = exec[b]
      /\ \A b \in Attempt : AttemptInv(b)'
  BY <1>1, <1>2, RunEffect
<1>4. ValidInv' /\ Kept /\ Final
  BY <1>1, SameRecord
<1>5. TypeOK'
  BY <1>3 DEF IInv, Launch, me, TypeOK, Executor
<1>6. \A e \in Effect : EffectInv(e)'
  BY <1>1, <1>4, EffectsStay
<1>7. \A p \in Process : pc[p] \in {"consumed", "launching"} /\ mode[p] = "check" => ticket[p] \in Attempt /\ ticket[p] # a
  BY <1>1 DEF IInv, CallerInv, WithAttempt
<1>8. (\A p \in Process : CallerInv(p)') /\ (\A p, q \in Process : Alone(p, q)')
  BY <1>1, <1>3, <1>4, <1>7, NobodyMoves
<1> QED
  BY <1>3, <1>4, <1>5, <1>6, <1>8 DEF IInv

\* What a change of the common epoch leaves of its totals.
LEMMA CommonRecord ==
  ASSUME IInv, common_change, state \in Common
  PROVE  /\ state' \in Common /\ state'.epoch = "common"
         /\ state'.slots >= state.slots /\ state'.slots <= Slots
         /\ state'.retained + OutputHold >= state.retained /\ state'.retained <= Bytes
<1>1. /\ state.epoch = "common" /\ state.slots \in 0..MaxCommon /\ state.bound \in 0..MaxCommon
      /\ state.settled \in 0..MaxCommon /\ state.retained \in Nat /\ state.revision \in Nat
      /\ MaxCommon \in Nat /\ OutputHold \in Nat /\ Slots \in Nat /\ Bytes \in Nat
  BY ServicePoolAssumption DEF Common
<1>2. state.slots <= Slots /\ state.retained <= Bytes
  <2>1. commonOf(state) = state /\ managedOf(state) = state /\ Effects(state) = 0 /\ Attempts(state) = 0
        /\ state \in Record
    BY <1>1 DEF commonOf, managedOf, Effects, Attempts, Record
  <2> QED
    BY <1>1, <2>1, UsageIs, CapacityIs DEF IInv, ValidInv
<1>3. CASE state.slots < MaxCommon /\ state.slots < Slots /\ state.retained + OutputHold <= Bytes /\ state' = Reserved
  <2>1. state' = [epoch |-> "common", slots |-> state.slots + 1, bound |-> state.bound, settled |-> state.settled,
                  retained |-> state.retained + OutputHold, revision |-> state.revision + 1]
    BY <1>3 DEF Reserved, Common
  <2> QED
    BY <1>1, <1>3, <2>1 DEF Common
<1>4. CASE state.bound < state.slots /\ state' = Bound
  <2>1. state' = [epoch |-> "common", slots |-> state.slots, bound |-> state.bound + 1, settled |-> state.settled,
                  retained |-> state.retained, revision |-> state.revision + 1]
    BY <1>4 DEF Bound, Common
  <2> QED
    BY <1>1, <1>2, <1>4, <2>1 DEF Common
<1>5. ASSUME NEW n \in 0..OutputHold, state.settled < state.bound, n <= state.retained, state' = Settled(n)
      PROVE  /\ state' \in Common /\ state'.epoch = "common"
             /\ state'.slots >= state.slots /\ state'.slots <= Slots
             /\ state'.retained + OutputHold >= state.retained /\ state'.retained <= Bytes
  <2>1. state' = [epoch |-> "common", slots |-> state.slots, bound |-> state.bound, settled |-> state.settled + 1,
                  retained |-> state.retained - n, revision |-> state.revision + 1]
    BY <1>5 DEF Settled, Common
  <2> QED
    BY <1>1, <1>2, <1>5, <2>1 DEF Common
<1> QED
  BY <1>3, <1>4, <1>5 DEF common_change

LEMMA CommonStep ==
  ASSUME IInv, common_change
  PROVE  IInv' /\ Final
<1>1. TypeOK /\ state \in Common /\ state.epoch = "common"
  BY Shape DEF IInv, TypeOK, common_change
<1>2. /\ state' \in Common /\ state'.epoch = "common"
      /\ state'.slots >= state.slots /\ state'.slots <= Slots
      /\ state'.retained + OutputHold >= state.retained /\ state'.retained <= Bytes
  BY <1>1, CommonRecord
<1>3. commonOf(state) = state /\ commonOf(state') = state' /\ Effects(state) = 0 /\ Effects(state') = 0
      /\ Attempts(state) = 0 /\ Attempts(state') = 0 /\ managedOf(state') = state'
  BY <1>1, <1>2 DEF commonOf, managedOf, Effects, Attempts
<1>4. state \in Record /\ state' \in Record /\ Slots \in Nat /\ OutputHold \in Nat
  BY <1>1, <1>2, ServicePoolAssumption DEF Record
<1>5. Final
  BY <1>1, <1>2, <1>3, <1>4, UsageIs, Counted DEF Final
<1>6. ValidInv'
  BY <1>2, <1>3, <1>4, UsageIs, CapacityIs, Counted DEF ValidInv
<1>7. /\ \A e \in Effect : ~Prepared(e) /\ ~CalledFor(e)
      /\ \A a \in Attempt : ~Admitted(a) /\ ~Begun(a) /\ ~Resulted(a) /\ ~Resulted(a)'
  BY <1>1, <1>2 DEF Prepared, CalledFor, Admitted, Begun, Resulted, managedOf
<1>8. Kept
  BY <1>7 DEF Kept
<1>9. TypeOK'
  BY <1>1, <1>4 DEF TypeOK, common_change, me
<1>10. (\A e \in Effect : EffectInv(e)') /\ (\A a \in Attempt : AttemptInv(a)')
  BY <1>7, <1>8, EffectsStay, AttemptsStay DEF common_change
<1>11. (\A p \in Process : CallerInv(p)') /\ (\A p, q \in Process : Alone(p, q)')
  BY <1>8, NobodyMoves DEF common_change, me
<1> QED
  BY <1>5, <1>6, <1>9, <1>10, <1>11 DEF IInv

--------------------------------------------------------------------------------
(* The steps that publish                                                       *)

\* A publication that records no result and leaves what anybody runs alone.
LEMMA PublishStep ==
  ASSUME IInv, NEW p \in Process, TypeOK', ValidInv', Kept, Others(p), HandsKept(p), CallerInv(p)',
         \A a \in Attempt : Resulted(a)' => Resulted(a), files' = files, exec' = exec
  PROVE  IInv'
<1>1. (\A e \in Effect : EffectInv(e)') /\ (\A a \in Attempt : AttemptInv(a)')
  BY EffectsStay, AttemptsStay
<1> QED
  BY <1>1, StepKeeps

LEMMA EpochSteps ==
  ASSUME IInv, NEW p \in Process, apply_grant(p) \/ attach(p)
  PROVE  IInv' /\ Final
<1>1. PICK r : /\ _publish(p, r, "open", "idle")
               /\ \/ StillHead(p, {"common"}) /\ r = NewEpoch(p, "managed", Effect)
                  \/ StillHead(p, {"common", "managed"}) /\ r = NewEpoch(p, "service", Attempt)
               /\ UNCHANGED <<lock, head, mode, ticket, live, expired, files, exec>>
  BY DEF apply_grant, attach
<1>2. TypeOK /\ CallerInv(p) /\ pc[p] = "open"
  BY <1>1 DEF IInv, StillHead
<1>3. /\ state' \in Record /\ ValidInv' /\ Kept /\ Final
      /\ \A a \in Attempt : Resulted(a)' => Resulted(a)
  BY <1>1, EpochStep
<1>4. /\ pc' \in [Process -> Steps] /\ jammed' \in BOOLEAN
      /\ \A q \in Process \ {p} : pc'[q] = pc[q]
      /\ pc'[p] \in {"open", "idle"}
  BY <1>1, <1>2, PublishedSteps DEF Steps
<1>5. TypeOK'
  BY <1>1, <1>2, <1>3, <1>4 DEF TypeOK
<1>6. Others(p) /\ HandsKept(p)
  BY <1>1, <1>4 DEF Others, HandsKept, WithEffect, WithAttempt
<1>7. CallerInv(p)'
  BY <1>1, <1>2, <1>4 DEF CallerInv, WithEffect, WithAttempt
<1> QED
  BY <1>1, <1>3, <1>5, <1>6, <1>7, PublishStep

\* The managed epoch, seen by a process that owns it.
LEMMA OwnedManaged ==
  ASSUME IInv, state.epoch = "managed", NEW e \in Effect
  PROVE  /\ state.entries[e] \in Managed \union {None}
         /\ Prepared(e) <=> state.entries[e] # None
         /\ CalledFor(e) <=> state.entries[e] # None /\ state.entries[e].consumed
<1>1. state \in ManagedEpoch
  BY Shape DEF IInv, TypeOK
<1> QED
  BY <1>1 DEF ManagedEpoch, Prepared, CalledFor, managedOf

LEMMA PrepareStep ==
  ASSUME IInv, NEW p \in Process, prepare_managed(p)
  PROVE  IInv' /\ Final
<1>1. PICK e \in Effect :
        /\ pc[p] = "open" /\ Owns(p, "managed") /\ state.entries[e] = None
        /\ _change(p, e, [consumed |-> FALSE, settlement |-> None, retained |-> HOLD], "prepared", "open")
        /\ ticket' = [ticket EXCEPT ![p] = IF Told(p, "prepared") THEN e ELSE None]
        /\ live' = [live EXCEPT ![p] = IF Told(p, "prepared") THEN @ \union {e} ELSE @]
        /\ UNCHANGED <<lock, head, mode, expired, files, exec>>
  BY DEF prepare_managed
<1> DEFINE entry == [consumed |-> FALSE, settlement |-> None, retained |-> HOLD]
<1>2. TypeOK /\ CallerInv(p) /\ state.epoch = "managed" /\ ~Prepared(e) /\ e \notin Attempt /\ None \notin Attempt
  BY <1>1, OwnedManaged, ServicePoolAssumption DEF IInv, Owns
<1>3. entry \in Managed /\ "prepared" \in Steps /\ "open" \in Steps
  BY ServicePoolAssumption DEF Managed, Steps
<1> HIDE DEF entry
<1>4. /\ state' \in Record /\ ValidInv' /\ Kept /\ Final
      /\ \A a \in Attempt : Resulted(a)' => Resulted(a)
      /\ pc' \in [Process -> Steps] /\ jammed' \in BOOLEAN
      /\ \A q \in Process \ {p} : pc'[q] = pc[q]
      /\ \/ pc'[p] = "prepared" /\ Prepared(e)'
         \/ pc'[p] = "open"
  BY <1>1, <1>2, <1>3, ManagedChange DEF entry
<1>5. /\ ticket' \in [Process -> Effect \union Attempt \union {None}]
      /\ live' \in [Process -> SUBSET (Effect \union Attempt)]
      /\ \A q \in Process \ {p} : ticket'[q] = ticket[q]
      /\ pc'[p] = "prepared" => ticket'[p] = e
      /\ pc'[p] = "open" => ticket'[p] = None
  BY <1>1, <1>2 DEF TypeOK, Told
<1>6. TypeOK'
  BY <1>1, <1>2, <1>4, <1>5 DEF TypeOK
<1>7. Others(p) /\ HandsKept(p)
  BY <1>1, <1>2, <1>4, <1>5 DEF Others, HandsKept, WithEffect, WithAttempt
<1>8. CallerInv(p)'
  BY <1>2, <1>4, <1>5 DEF CallerInv, WithEffect, WithAttempt, Prepared
<1> QED
  BY <1>1, <1>4, <1>6, <1>7, <1>8, PublishStep

LEMMA BeforeCallbackStep ==
  ASSUME IInv, NEW p \in Process, before_callback(p)
  PROVE  IInv' /\ Final
<1>1. TypeOK /\ CallerInv(p)
  BY DEF IInv
<1>2. pc[p] = "prepared" /\ ticket[p] \in Effect /\ Prepared(ticket[p])
  BY <1>1 DEF before_callback, CallerInv, WithEffect
<1>3. PICK e \in Effect : e = ticket[p]
  BY <1>2
<1>4. Prepared(e) /\ e \notin Attempt
  BY <1>2, <1>3, ServicePoolAssumption
<1>5. /\ live' = [live EXCEPT ![p] = @ \ {e}]
      /\ UNCHANGED <<lock, head, mode, ticket, expired, files, exec>>
      /\ \/ /\ state.epoch = "managed" /\ state.entries[e].settlement = None /\ files[e].callbacks = 0
            /\ _change(p, e, [state.entries[e] EXCEPT !.consumed = TRUE], "callback", "open")
         \/ Goto(p, "open") /\ UNCHANGED <<state, jammed>>
  BY <1>3 DEF before_callback, Consumable, Owns
<1>6. live' \in [Process -> SUBSET (Effect \union Attempt)]
  BY <1>1, <1>5 DEF TypeOK
<1>7. CASE Goto(p, "open") /\ UNCHANGED <<state, jammed>>
  <2>1. TypeOK'
    BY <1>1, <1>5, <1>6, <1>7 DEF TypeOK, Goto, Steps
  <2>2. Others(p) /\ HandsKept(p)
    BY <1>1, <1>5, <1>7 DEF TypeOK, Goto, Others, HandsKept, WithEffect, WithAttempt
  <2>3. CallerInv(p)'
    BY <1>1, <1>3, <1>4, <1>5, <1>7 DEF TypeOK, Goto, CallerInv, WithEffect, WithAttempt
  <2> QED
    BY <1>5, <1>7, <2>1, <2>2, <2>3, QuietStep
<1>8. CASE /\ state.epoch = "managed" /\ state.entries[e].settlement = None /\ files[e].callbacks = 0
           /\ _change(p, e, [state.entries[e] EXCEPT !.consumed = TRUE], "callback", "open")
  <2>1. state.entries[e] \in Managed /\ state.entries[e].settlement # "UNKNOWN"
    BY <1>4, <1>8, OwnedManaged, ServicePoolAssumption DEF Results
  <2>2. PICK entry \in Managed : entry = [state.entries[e] EXCEPT !.consumed = TRUE]
    BY <2>1 DEF Managed
  <2>3. entry.consumed /\ _change(p, e, entry, "callback", "open")
    BY <1>8, <2>1, <2>2 DEF Managed
  <2>4. "callback" \in Steps /\ "open" \in Steps
    BY DEF Steps
  <2>5. /\ state' \in Record /\ ValidInv' /\ Kept /\ Final
        /\ \A a \in Attempt : Resulted(a)' => Resulted(a)
        /\ pc' \in [Process -> Steps] /\ jammed' \in BOOLEAN
        /\ \A q \in Process \ {p} : pc'[q] = pc[q]
        /\ \/ pc'[p] = "callback" /\ Prepared(e)' /\ CalledFor(e)'
           \/ pc'[p] = "open"
    BY <1>8, <2>1, <2>3, <2>4, ManagedChange
  <2>6. TypeOK'
    BY <1>1, <1>5, <1>6, <2>5 DEF TypeOK
  <2>7. Others(p) /\ HandsKept(p)
    BY <1>2, <1>5, <2>5 DEF Others, HandsKept, WithEffect, WithAttempt
  <2>8. CallerInv(p)'
    BY <1>3, <1>4, <1>5, <1>8, <2>5 DEF CallerInv, WithEffect, WithAttempt, Prepared, CalledFor
  <2> QED
    BY <1>5, <2>5, <2>6, <2>7, <2>8, PublishStep
<1> QED
  BY <1>5, <1>7, <1>8

\* A handle that settles or gives up an effect has nothing in hand itself.
LEMMA ManagedEndStep ==
  ASSUME IInv, NEW p \in Process, settle_managed(p) \/ mark_managed_unknown(p)
  PROVE  IInv' /\ Final
<1>1. PICK e \in Effect, entry \in Managed :
        /\ pc[p] = "open" /\ state.epoch = "managed"
        /\ state.entries[e] # None /\ state.entries[e].settlement # "UNKNOWN"
        /\ state.entries[e].consumed => entry.consumed
        /\ _change(p, e, entry, "open", "open")
        /\ UNCHANGED <<lock, head, mode, ticket, live, expired, files, exec>>
  <2>1. CASE settle_managed(p)
    <3>1. PICK e \in Effect, n \in 1..HOLD :
            /\ pc[p] = "open" /\ Owns(p, "managed")
            /\ state.entries[e] # None
            /\ state.entries[e].consumed /\ state.entries[e].settlement = None
            /\ _change(p, e, [state.entries[e] EXCEPT !.settlement = "KNOWN", !.retained = n], "open", "open")
            /\ UNCHANGED <<lock, head, mode, ticket, live, expired, files, exec>>
      BY <2>1 DEF settle_managed
    <3>2. state.epoch = "managed" /\ state.entries[e] \in Managed /\ state.entries[e].settlement # "UNKNOWN"
      BY <3>1, OwnedManaged, ServicePoolAssumption DEF Owns, Results
    <3> DEFINE x == [state.entries[e] EXCEPT !.settlement = "KNOWN"]
    <3>3. x \in Managed /\ x.consumed = state.entries[e].consumed
      BY <3>2 DEF Managed
    <3>4. [state.entries[e] EXCEPT !.settlement = "KNOWN", !.retained = n] = [x EXCEPT !.retained = n]
      BY <3>2 DEF Managed
    <3> HIDE DEF x
    <3>5. [x EXCEPT !.retained = n] \in Managed /\ [x EXCEPT !.retained = n].consumed = x.consumed
      BY <3>3, ServicePoolAssumption DEF Managed
    <3>6. PICK y \in Managed : y = [x EXCEPT !.retained = n] /\ y.consumed = x.consumed
      BY <3>5
    <3>7. _change(p, e, y, "open", "open")
      BY <3>1, <3>4, <3>6
    <3> QED
      BY <3>1, <3>2, <3>3, <3>6, <3>7
  <2>2. CASE mark_managed_unknown(p)
    <3>1. PICK e \in Effect :
            /\ pc[p] = "open" /\ Owns(p, "managed")
            /\ state.entries[e] # None /\ state.entries[e].settlement = None
            /\ _change(p, e, [state.entries[e] EXCEPT !.settlement = "UNKNOWN"], "open", "open")
            /\ UNCHANGED <<lock, head, mode, ticket, live, expired, files, exec>>
      BY <2>2 DEF mark_managed_unknown
    <3>2. state.epoch = "managed" /\ state.entries[e] \in Managed /\ state.entries[e].settlement # "UNKNOWN"
      BY <3>1, OwnedManaged, ServicePoolAssumption DEF Owns, Results
    <3>3. PICK y \in Managed : y = [state.entries[e] EXCEPT !.settlement = "UNKNOWN"]
      BY <3>2 DEF Managed
    <3>4. y.consumed = state.entries[e].consumed /\ _change(p, e, y, "open", "open")
      BY <3>1, <3>2, <3>3 DEF Managed
    <3> QED
      BY <3>1, <3>2, <3>4
  <2> QED
    BY <2>1, <2>2
<1>2. TypeOK /\ CallerInv(p)
  BY DEF IInv
<1>3. "open" \in Steps
  BY DEF Steps
<1>4. /\ state' \in Record /\ ValidInv' /\ Kept /\ Final
      /\ \A a \in Attempt : Resulted(a)' => Resulted(a)
      /\ pc' \in [Process -> Steps] /\ jammed' \in BOOLEAN
      /\ \A q \in Process \ {p} : pc'[q] = pc[q]
      /\ pc'[p] = "open"
  BY <1>1, <1>3, ManagedChange
<1>5. TypeOK'
  BY <1>1, <1>2, <1>4 DEF TypeOK
<1>6. Others(p) /\ HandsKept(p)
  BY <1>1, <1>4 DEF Others, HandsKept, WithEffect, WithAttempt
<1>7. CallerInv(p)'
  BY <1>1, <1>2, <1>4 DEF CallerInv, WithEffect, WithAttempt
<1> QED
  BY <1>1, <1>4, <1>5, <1>6, <1>7, PublishStep

\* The service epoch, seen by a process that owns it.
LEMMA OwnedServed ==
  ASSUME IInv, state.epoch = "service", NEW a \in Attempt
  PROVE  /\ state.entries[a] \in Served \union {None}
         /\ Admitted(a) <=> state.entries[a] # None
         /\ state.entries[a] # None => AttemptValid(state.entries[a])
<1>1. state \in ServiceEpoch
  BY Shape DEF IInv, TypeOK
<1> QED
  BY <1>1 DEF ServiceEpoch, Admitted, IInv, ValidInv

LEMMA AdmitStep ==
  ASSUME IInv, NEW p \in Process, admit(p)
  PROVE  IInv' /\ Final
<1>1. PICK a \in Attempt :
        /\ pc[p] \in {"open", "claimed"} /\ Owns(p, "service") /\ state.entries[a] = None
        /\ _change(p, a, [start |-> FALSE, unknown |-> FALSE, result |-> None, state |-> "ADMITTED"],
                   "admitted", "failed")
        /\ ticket' = [ticket EXCEPT ![p] = IF Told(p, "admitted") THEN a ELSE None]
        /\ live' = [live EXCEPT ![p] = IF Told(p, "admitted") THEN @ \union {a} ELSE @]
        /\ UNCHANGED <<lock, head, mode, expired, files, exec>>
  BY DEF admit
<1>2. TypeOK /\ CallerInv(p) /\ state.epoch = "service" /\ ~Admitted(a) /\ None \notin Attempt
  BY <1>1, OwnedServed, ServicePoolAssumption DEF IInv, Owns
<1>3. PICK entry \in Served :
        entry = [start |-> FALSE, unknown |-> FALSE, result |-> None, state |-> "ADMITTED"]
  BY DEF Served
<1>4. _change(p, a, entry, "admitted", "failed") /\ entry.result = None
  BY <1>1, <1>3
<1>5. "admitted" \in Steps /\ "failed" \in Steps
  BY DEF Steps
<1>6. /\ state' \in Record /\ ValidInv' /\ Kept /\ Final
      /\ \A b \in Attempt \ {a} : Resulted(b)' => Resulted(b)
      /\ Resulted(a)' => Resulted(a)
      /\ pc' \in [Process -> Steps] /\ jammed' \in BOOLEAN
      /\ \A q \in Process \ {p} : pc'[q] = pc[q]
      /\ \/ pc'[p] = "admitted" /\ Admitted(a)'
         \/ pc'[p] = "failed"
  BY <1>1, <1>2, <1>4, <1>5, ServedChange
<1>7. /\ ticket' \in [Process -> Effect \union Attempt \union {None}]
      /\ live' \in [Process -> SUBSET (Effect \union Attempt)]
      /\ \A q \in Process \ {p} : ticket'[q] = ticket[q]
      /\ pc'[p] = "admitted" => ticket'[p] = a
      /\ pc'[p] = "failed" => ticket'[p] = None
  BY <1>1, <1>2 DEF TypeOK, Told
<1>8. TypeOK'
  BY <1>1, <1>2, <1>6, <1>7 DEF TypeOK
<1>9. Others(p) /\ HandsKept(p)
  BY <1>1, <1>2, <1>6, <1>7 DEF Others, HandsKept, WithEffect, WithAttempt
<1>10. CallerInv(p)'
  BY <1>2, <1>6, <1>7 DEF CallerInv, WithEffect, WithAttempt, Admitted
<1>11. \A b \in Attempt : Resulted(b)' => Resulted(b)
  BY <1>6
<1> QED
  BY <1>1, <1>6, <1>8, <1>9, <1>10, <1>11, PublishStep

\* What a consumption leaves in the executor's memory.
LEMMA ConsumeEffect ==
  ASSUME exec \in [Attempt -> Executor], NEW a \in Attempt, NEW t \in BOOLEAN, NEW l \in BOOLEAN,
         exec' = [exec EXCEPT ![a].told = @ \/ t, ![a].late = l]
  PROVE  /\ exec' \in [Attempt -> Executor]
         /\ \A b \in Attempt \ {a} : exec'[b] = exec[b]
         /\ exec'[a].runs = exec[a].runs /\ exec'[a].exit = exec[a].exit
         /\ (exec'[a].told <=> exec[a].told \/ t) /\ exec'[a].late = l
<1> DEFINE x == exec[a]
           y == [x EXCEPT !.told = x.told \/ t]
           z == [y EXCEPT !.late = l]
<1>1. x \in Executor
  OBVIOUS
<1>2. exec' = [exec EXCEPT ![a] = z]
  BY DEF Executor
<1>3. (x.told \/ t) \in BOOLEAN
  BY <1>1 DEF Executor
<1> HIDE DEF x
<1>4. y \in Executor /\ y.runs = x.runs /\ y.exit = x.exit /\ y.told = (x.told \/ t)
  BY <1>1, <1>3 DEF Executor
<1> HIDE DEF y
<1>5. z \in Executor /\ z.runs = y.runs /\ z.exit = y.exit /\ z.told = y.told /\ z.late = l
  BY <1>4 DEF Executor
<1> HIDE DEF z
<1> QED
  BY <1>2, <1>4, <1>5 DEF x

\* A consumption: whoever is told of it is the first, and an attempt that the
\* journal has as admitted has not been announced to anybody.
LEMMA ConsumeStep ==
  ASSUME IInv, NEW p \in Process, consume(p)
  PROVE  IInv' /\ Final
<1>1. TypeOK /\ CallerInv(p)
  BY DEF IInv
<1>2. pc[p] \in {"started", "fresh"} /\ ticket[p] \in Attempt /\ Admitted(ticket[p])
  BY <1>1 DEF consume, CallerInv, WithAttempt
<1>3. PICK a \in Attempt : a = ticket[p]
  BY <1>2
<1>4. /\ live' = [live EXCEPT ![p] = @ \ {a}]
      /\ UNCHANGED <<lock, head, mode, ticket, expired, files>>
      /\ exec' = [exec EXCEPT ![a].told = @ \/ (pc'[p] = "consumed" /\ mode[p] # "check"),
                              ![a].late = expired[p]]
      /\ \/ /\ state.epoch = "service" /\ state.entries[a].state = "ADMITTED"
            /\ _change(p, a, [state.entries[a] EXCEPT !.start = TRUE, !.state = "CONSUMED"],
                       "consumed", "failed")
         \/ Goto(p, "failed") /\ UNCHANGED <<state, jammed>>
  BY <1>3 DEF consume, Owns, Told
<1>5. /\ exec' \in [Attempt -> Executor]
      /\ \A b \in Attempt \ {a} : exec'[b] = exec[b]
      /\ exec'[a].runs = exec[a].runs /\ exec'[a].exit = exec[a].exit
      /\ (exec'[a].told <=> exec[a].told \/ (pc'[p] = "consumed" /\ mode[p] # "check"))
      /\ exec'[a].late = expired[p]
  <2>1. PICK t \in BOOLEAN : t = (pc'[p] = "consumed" /\ mode[p] # "check")
    OBVIOUS
  <2>2. exec \in [Attempt -> Executor] /\ expired[p] \in BOOLEAN
    BY <1>1 DEF TypeOK, Executor
  <2>3. exec' = [exec EXCEPT ![a].told = @ \/ t, ![a].late = expired[p]]
    BY <1>4, <2>1
  <2>4. /\ exec' \in [Attempt -> Executor]
        /\ \A b \in Attempt \ {a} : exec'[b] = exec[b]
        /\ exec'[a].runs = exec[a].runs /\ exec'[a].exit = exec[a].exit
        /\ (exec'[a].told <=> exec[a].told \/ t)
        /\ exec'[a].late = expired[p]
    BY <2>2, <2>3, ConsumeEffect
  <2> QED
    BY <2>1, <2>4, Zenon
<1>6. live' \in [Process -> SUBSET (Effect \union Attempt)]
  BY <1>1, <1>4 DEF TypeOK
<1>7. /\ state' \in Record /\ ValidInv' /\ Kept /\ Final
      /\ \A b \in Attempt : Resulted(b)' => Resulted(b)
      /\ pc' \in [Process -> Steps] /\ jammed' \in BOOLEAN
      /\ \A q \in Process \ {p} : pc'[q] = pc[q]
      /\ \/ pc'[p] = "consumed" /\ Begun(a)' /\ ~Begun(a)
         \/ pc'[p] = "failed"
  <2>1. CASE Goto(p, "failed") /\ UNCHANGED <<state, jammed>>
    <3>1. /\ pc' \in [Process -> Steps] /\ jammed' \in BOOLEAN /\ pc'[p] = "failed"
          /\ \A q \in Process \ {p} : pc'[q] = pc[q]
      BY <1>1, <2>1 DEF TypeOK, Goto, Steps
    <3> QED
      BY <2>1, <3>1, SameRecord
  <2>2. CASE /\ state.epoch = "service" /\ state.entries[a].state = "ADMITTED"
             /\ _change(p, a, [state.entries[a] EXCEPT !.start = TRUE, !.state = "CONSUMED"],
                        "consumed", "failed")
    <3>1. state.entries[a] \in Served /\ AttemptValid(state.entries[a])
      BY <1>2, <1>3, <2>2, OwnedServed
    <3>2. ~state.entries[a].start /\ ~state.entries[a].unknown /\ state.entries[a].result = None
      BY <2>2, <3>1 DEF AttemptValid, EntryState, Served, Results
    <3> DEFINE x == [state.entries[a] EXCEPT !.start = TRUE]
    <3>3. x \in Served /\ x.start /\ x.unknown = state.entries[a].unknown /\ x.result = state.entries[a].result
      BY <3>1 DEF Served
    <3>4. [state.entries[a] EXCEPT !.start = TRUE, !.state = "CONSUMED"] = [x EXCEPT !.state = "CONSUMED"]
      BY <3>1 DEF Served
    <3> HIDE DEF x
    <3>5. /\ [x EXCEPT !.state = "CONSUMED"] \in Served /\ [x EXCEPT !.state = "CONSUMED"].start = x.start
          /\ [x EXCEPT !.state = "CONSUMED"].unknown = x.unknown
          /\ [x EXCEPT !.state = "CONSUMED"].result = x.result
      BY <3>3 DEF Served
    <3>6. PICK entry \in Served :
            /\ _change(p, a, entry, "consumed", "failed")
            /\ entry.start /\ entry.result = None
      BY <2>2, <3>2, <3>3, <3>4, <3>5
    <3>7. "consumed" \in Steps /\ "failed" \in Steps /\ state.epoch = "service"
      BY <2>2 DEF Steps
    <3>8. /\ state' \in Record /\ ValidInv' /\ Kept /\ Final
          /\ \A b \in Attempt \ {a} : Resulted(b)' => Resulted(b)
          /\ Resulted(a)' => Resulted(a)
          /\ pc' \in [Process -> Steps] /\ jammed' \in BOOLEAN
          /\ \A q \in Process \ {p} : pc'[q] = pc[q]
          /\ \/ pc'[p] = "consumed" /\ Admitted(a)' /\ state'.entries[a] = entry
             \/ pc'[p] = "failed"
      BY <3>2, <3>6, <3>7, ServedChange
    <3>9. ~Begun(a)
      BY <3>2 DEF Begun
    <3> QED
      BY <3>6, <3>8, <3>9 DEF Begun
  <2> QED
    BY <1>4, <2>1, <2>2
<1>8. exec[a].told \in BOOLEAN /\ exec[a].runs \in Nat
  BY <1>1 DEF TypeOK
<1>9. ~Begun(a) => exec[a].runs = 0 /\ ~exec[a].told
  BY <1>8 DEF IInv, AttemptInv
<1>10. TypeOK'
  BY <1>1, <1>4, <1>5, <1>6, <1>7 DEF TypeOK, Executor
<1>11. Others(p) /\ HandsKept(p)
  BY <1>2, <1>4, <1>7 DEF Others, HandsKept, WithAttempt, WithEffect
<1>12. CallerInv(p)'
  <2>1. Admitted(a)'
    BY <1>2, <1>3, <1>7 DEF Kept
  <2> QED
    BY <1>3, <1>4, <1>5, <1>7, <1>9, <2>1 DEF CallerInv, WithEffect, WithAttempt, Admitted, Begun
<1>13. AttemptInv(a)'
  <2>1. AttemptInv(a)
    BY DEF IInv
  <2>2. /\ Begun(a) => Begun(a)'
        /\ Resulted(a)' => Resulted(a) /\ state'.entries[a].result = state.entries[a].result
    BY <1>7 DEF Kept
  <2> QED
    BY <1>5, <1>7, <1>8, <1>9, <2>1, <2>2 DEF AttemptInv
<1>14. ASSUME NEW b \in Attempt \ {a} PROVE AttemptInv(b)'
  <2>1. AttemptInv(b) /\ exec'[b] = exec[b]
    BY <1>5 DEF IInv
  <2>2. /\ Begun(b) => Begun(b)'
        /\ Resulted(b)' => Resulted(b) /\ state'.entries[b].result = state.entries[b].result
    BY <1>7 DEF Kept
  <2> QED
    BY <2>1, <2>2 DEF AttemptInv
<1>15. \A e \in Effect : EffectInv(e)'
  BY <1>4, <1>7, EffectsStay
<1>16. \A q \in Process \ {p} : pc[q] \in {"consumed", "launching"} => ticket[q] \in Attempt /\ ticket[q] # a
  BY <1>2, <1>3 DEF IInv, Alone, CallerInv, WithAttempt
<1>17. (\A b \in Attempt : AttemptInv(b)')
  BY <1>13, <1>14
<1> QED
  BY <1>4, <1>5, <1>7, <1>10, <1>11, <1>12, <1>15, <1>16, <1>17, StepKeeps

\* A settlement records the exit of the one run.
LEMMA SettleStep ==
  ASSUME IInv, NEW p \in Process, settle(p)
  PROVE  IInv' /\ Final
<1>1. TypeOK /\ CallerInv(p)
  BY DEF IInv
<1>2. pc[p] \in {"ran", "consumed"} /\ ticket[p] \in Attempt /\ Admitted(ticket[p])
  BY <1>1 DEF settle, CallerInv, WithAttempt
<1>3. PICK a \in Attempt : a = ticket[p]
  BY <1>2
<1>4. /\ UNCHANGED <<lock, head, mode, ticket, live, expired, files, exec>>
      /\ state.epoch = "service" /\ state.entries[a].result = None /\ exec[a].exit # None
  BY <1>3 DEF settle, Owns
<1>5. state.entries[a] \in Served /\ exec[a].exit \in Results
  BY <1>1, <1>2, <1>3, <1>4, OwnedServed DEF TypeOK
<1>6. PICK c \in Results : c = exec[a].exit
  BY <1>5
<1> DEFINE x == [state.entries[a] EXCEPT !.result = c]
<1>7. /\ x \in Served /\ x.start = state.entries[a].start /\ x.unknown = state.entries[a].unknown
      /\ x.result = c
  BY <1>5 DEF Served
<1>8. _change(p, a, [x EXCEPT !.state = IF x.unknown THEN "UNKNOWN" ELSE x.result], "settled", "failed")
  BY <1>3, <1>6 DEF settle, Classification
<1> HIDE DEF x
<1>9. (IF x.unknown THEN "UNKNOWN" ELSE x.result) \in Results
  BY <1>7 DEF Results
<1>10. PICK d \in Results : d = (IF x.unknown THEN "UNKNOWN" ELSE x.result)
  BY <1>9
<1>11. /\ [x EXCEPT !.state = d] \in Served /\ [x EXCEPT !.state = d].start = x.start
       /\ [x EXCEPT !.state = d].unknown = x.unknown /\ [x EXCEPT !.state = d].result = x.result
  BY <1>7 DEF Served
<1>12. PICK entry \in Served :
         /\ _change(p, a, entry, "settled", "failed")
         /\ entry.start = state.entries[a].start /\ entry.unknown = state.entries[a].unknown
         /\ entry.result = c
  BY <1>7, <1>8, <1>10, <1>11
<1>13. "settled" \in Steps /\ "failed" \in Steps /\ c # None
  BY ServicePoolAssumption DEF Steps
<1>14. /\ state' \in Record /\ ValidInv' /\ Kept /\ Final
       /\ \A b \in Attempt \ {a} : Resulted(b)' => Resulted(b)
       /\ Resulted(a)' => Resulted(a) \/ state'.entries[a].result = c
       /\ pc' \in [Process -> Steps] /\ jammed' \in BOOLEAN
       /\ \A q \in Process \ {p} : pc'[q] = pc[q]
       /\ \/ pc'[p] = "settled" /\ Admitted(a)' /\ state'.entries[a].result = c
          \/ pc'[p] = "failed"
  BY <1>4, <1>12, <1>13, ServedChange
<1>15. ~Resulted(a)
  BY <1>4 DEF Resulted
<1>16. AttemptInv(a)'
  <2>1. AttemptInv(a) /\ (Begun(a) => Begun(a)')
    BY <1>14 DEF IInv, Kept
  <2> QED
    BY <1>4, <1>6, <1>14, <1>15, <2>1 DEF AttemptInv
<1>17. ASSUME NEW b \in Attempt \ {a} PROVE AttemptInv(b)'
  <2>1. AttemptInv(b) /\ exec' = exec
    BY <1>4 DEF IInv
  <2>2. /\ Begun(b) => Begun(b)'
        /\ Resulted(b)' => Resulted(b) /\ state'.entries[b].result = state.entries[b].result
    BY <1>14 DEF Kept
  <2> QED
    BY <2>1, <2>2 DEF AttemptInv
<1>18. \A e \in Effect : EffectInv(e)'
  BY <1>4, <1>14, EffectsStay
<1>19. TypeOK'
  BY <1>1, <1>4, <1>14 DEF TypeOK
<1>20. Others(p) /\ HandsKept(p)
  BY <1>2, <1>4, <1>14 DEF Others, HandsKept, WithEffect, WithAttempt
<1>21. CallerInv(p)'
  <2>1. Admitted(a)'
    BY <1>2, <1>3, <1>14 DEF Kept
  <2> QED
    BY <1>3, <1>4, <1>13, <1>14, <2>1 DEF CallerInv, WithEffect, WithAttempt, Admitted, Resulted
<1>22. \A b \in Attempt : AttemptInv(b)'
  BY <1>16, <1>17
<1> QED
  BY <1>4, <1>14, <1>18, <1>19, <1>20, <1>21, <1>22, StepKeeps

\* The entry an attempt has once it is given up.
Unknown(entry) == [entry EXCEPT !.unknown = TRUE, !.state = "UNKNOWN"]
LEMMA GivenUp ==
  ASSUME IInv, NEW p \in Process, NEW a \in Attempt, a = ticket[p], Markable(p),
         NEW told \in Steps, NEW failed \in Steps,
         _change(p, a, Unknown(state.entries[a]), told, failed)
  PROVE  /\ state' \in Record /\ ValidInv' /\ Kept /\ Final
         /\ \A b \in Attempt : Resulted(b)' => Resulted(b)
         /\ pc' \in [Process -> Steps] /\ jammed' \in BOOLEAN
         /\ \A q \in Process \ {p} : pc'[q] = pc[q]
         /\ pc'[p] \in {told, failed}
<1>1. state.epoch = "service" /\ state.entries[a] # None /\ state.entries[a].result = None
  BY DEF Markable, Owns
<1>2. state.entries[a] \in Served
  BY <1>1, OwnedServed
<1> DEFINE x == [state.entries[a] EXCEPT !.unknown = TRUE]
<1>3. x \in Served /\ x.start = state.entries[a].start /\ x.unknown /\ x.result = state.entries[a].result
  BY <1>2 DEF Served
<1>4. Unknown(state.entries[a]) = [x EXCEPT !.state = "UNKNOWN"]
  BY <1>2 DEF Served, Unknown
<1> HIDE DEF x
<1>5. /\ [x EXCEPT !.state = "UNKNOWN"] \in Served /\ [x EXCEPT !.state = "UNKNOWN"].start = x.start
      /\ [x EXCEPT !.state = "UNKNOWN"].unknown = x.unknown
      /\ [x EXCEPT !.state = "UNKNOWN"].result = x.result
  BY <1>3 DEF Served, Results
<1>6. PICK entry \in Served :
        /\ _change(p, a, entry, told, failed)
        /\ entry.start = state.entries[a].start /\ entry.unknown /\ entry.result = None
  BY <1>1, <1>3, <1>4, <1>5
<1>7. /\ state' \in Record /\ ValidInv' /\ Kept /\ Final
      /\ \A b \in Attempt \ {a} : Resulted(b)' => Resulted(b)
      /\ Resulted(a)' => Resulted(a)
      /\ pc' \in [Process -> Steps] /\ jammed' \in BOOLEAN
      /\ \A q \in Process \ {p} : pc'[q] = pc[q]
      /\ pc'[p] \in {told, failed}
  BY <1>1, <1>6, ServedChange
<1> QED
  BY <1>7

LEMMA MarkUnknownStep ==
  ASSUME IInv, NEW p \in Process, mark_unknown(p)
  PROVE  IInv' /\ Final
<1>1. TypeOK /\ CallerInv(p)
  BY DEF IInv
<1>2. pc[p] \in {"admitted", "started", "consumed"} /\ mode[p] = "library" /\ Markable(p) /\ ticket[p] \in Attempt
  BY DEF mark_unknown, Markable
<1>3. PICK a \in Attempt : a = ticket[p]
  BY <1>2
<1>4. PICK step \in Steps : step = pc[p]
  BY <1>1 DEF TypeOK
<1>5. /\ _change(p, a, Unknown(state.entries[a]), step, step)
      /\ UNCHANGED <<lock, head, mode, ticket, live, expired, files, exec>>
  BY <1>3, <1>4 DEF mark_unknown, Unknown
<1>6. /\ state' \in Record /\ ValidInv' /\ Kept /\ Final
      /\ \A b \in Attempt : Resulted(b)' => Resulted(b)
      /\ pc' \in [Process -> Steps] /\ jammed' \in BOOLEAN
      /\ \A q \in Process \ {p} : pc'[q] = pc[q]
      /\ pc'[p] = pc[p]
  BY <1>2, <1>3, <1>4, <1>5, GivenUp
<1>7. TypeOK'
  BY <1>1, <1>5, <1>6 DEF TypeOK
<1>8. Others(p) /\ HandsKept(p)
  BY <1>2, <1>5, <1>6 DEF Others, HandsKept, WithEffect, WithAttempt
<1>9. CallerInv(p)'
  <2>1. Admitted(a)' /\ (Begun(a) => Begun(a)')
    BY <1>1, <1>2, <1>3, <1>6 DEF CallerInv, WithAttempt, Kept
  <2> QED
    BY <1>1, <1>2, <1>3, <1>5, <1>6, <2>1 DEF CallerInv, WithEffect, WithAttempt, Admitted, Begun
<1> QED
  BY <1>5, <1>6, <1>7, <1>8, <1>9, PublishStep

LEMMA AbandonStep ==
  ASSUME IInv, NEW p \in Process, abandon(p)
  PROVE  IInv' /\ Final
<1>1. TypeOK /\ Leave(p)
  BY DEF IInv, abandon
<1>2. /\ state' \in Record /\ ValidInv' /\ Kept /\ Final
      /\ \A b \in Attempt : Resulted(b)' => Resulted(b)
      /\ pc' \in [Process -> Steps] /\ jammed' \in BOOLEAN
      /\ \A q \in Process \ {p} : pc'[q] = pc[q]
      /\ pc'[p] = "idle"
  <2>1. CASE Markable(p)
    <3>1. PICK a \in Attempt : a = ticket[p]
      BY <2>1 DEF Markable
    <3>2. "idle" \in Steps
      BY DEF Steps
    <3>3. _change(p, a, Unknown(state.entries[a]), "idle", "idle")
      BY <2>1, <3>1 DEF abandon, Unknown
    <3> QED
      BY <2>1, <3>1, <3>2, <3>3, GivenUp
  <2>2. CASE ~Markable(p)
    <3>1. Goto(p, "idle") /\ UNCHANGED <<state, jammed>>
      BY <2>2 DEF abandon
    <3>2. /\ pc' \in [Process -> Steps] /\ jammed' \in BOOLEAN /\ pc'[p] = "idle"
          /\ \A q \in Process \ {p} : pc'[q] = pc[q]
      BY <1>1, <3>1 DEF TypeOK, Goto, Steps
    <3> QED
      BY <3>1, <3>2, SameRecord
  <2> QED
    BY <2>1, <2>2
<1>3. Others(p) /\ HandsKept(p) /\ CallerInv(p)' /\ TypeOK'
  BY <1>1, <1>2, Left
<1>4. files' = files /\ exec' = exec
  BY <1>1 DEF Leave
<1> QED
  BY <1>2, <1>3, <1>4, PublishStep

--------------------------------------------------------------------------------
(* The invariant                                                                *)

LEMMA InitIInv == Init => IInv
<1> SUFFICES ASSUME Init PROVE IInv
  OBVIOUS
<1>1. state = [epoch |-> "common", slots |-> 0, bound |-> 0, settled |-> 0, retained |-> 0, revision |-> 0] /\ state \in Common /\ state \in Record
  BY ServicePoolAssumption DEF Init, Common, Record
<1>2. TypeOK
  BY <1>1, ServicePoolAssumption DEF Init, TypeOK, Steps
<1>3. ValidInv
  <2>1. commonOf(state) = state /\ Effects(state) = 0 /\ Attempts(state) = 0 /\ managedOf(state) = state
    BY <1>1 DEF commonOf, managedOf, Effects, Attempts
  <2> QED
    BY <1>1, <2>1, UsageIs, CapacityIs, ServicePoolAssumption DEF ValidInv
<1>4. \A e \in Effect : EffectInv(e)
  BY DEF Init, EffectInv
<1>5. \A a \in Attempt : AttemptInv(a)
  BY <1>1 DEF Init, AttemptInv, Resulted, Admitted
<1>6. \A p \in Process : CallerInv(p)
  BY ServicePoolAssumption DEF Init, CallerInv, WithEffect, WithAttempt
<1>7. \A p, q \in Process : Alone(p, q)
  BY DEF Init, Alone, WithEffect, WithAttempt
<1> QED
  BY <1>2, <1>3, <1>4, <1>5, <1>6, <1>7 DEF IInv

LEMMA NextIInv == IInv /\ [Next]_vars => IInv' /\ Final
<1> SUFFICES ASSUME IInv, [Next]_vars PROVE IInv' /\ Final
  OBVIOUS
<1>1. CASE common_change
  BY <1>1, CommonStep
<1>2. ASSUME NEW a \in Attempt, Launch(a) PROVE IInv' /\ Final
  BY <1>2, LaunchStep
<1>3. ASSUME NEW p \in Process, Step(p) PROVE IInv' /\ Final
  BY <1>3, SelectStep, EpochSteps, PrepareStep, WriteManagedStartStep, BeforeCallbackStep, CallbackStep,
     WriteCompleteStep, ManagedEndStep, OpenStep, ExpireStep, ClaimStep, AdmitStep, WriteStartStep,
     FreshStep, ConsumeStep, BeforeLaunchStep, ExecuteStep, SettleStep, MarkUnknownStep, FailStep, AbandonStep, GoneStep
  DEF Step
<1>4. CASE UNCHANGED vars
  <2>1. state' = state /\ ValidInv' /\ Kept /\ Final /\ \A a \in Attempt : Resulted(a)' => Resulted(a)
    BY <1>4, SameRecord DEF vars
  <2>2. TypeOK'
    BY <1>4 DEF IInv, TypeOK, vars
  <2>3. (\A e \in Effect : EffectInv(e)') /\ (\A a \in Attempt : AttemptInv(a)')
    BY <1>4, <2>1, EffectsStay, AttemptsStay DEF vars
  <2>4. (\A p \in Process : CallerInv(p)') /\ (\A p, q \in Process : Alone(p, q)')
    BY <1>4, <2>1, NobodyMoves DEF vars
  <2> QED
    BY <2>1, <2>2, <2>3, <2>4 DEF IInv
<1> QED
  BY <1>1, <1>2, <1>3, <1>4 DEF Next

\* The inductive invariant holds of the epochs of every accounting root.
THEOREM ServicePoolInvariant == Spec => []IInv
  BY InitIInv, NextIInv, PTL DEF Spec

--------------------------------------------------------------------------------
(* What the invariant gives                                                     *)

\* What happens at most once for each x, and only for those in T, happens at most
\* as often as T has elements.
LEMMA CountAtMost ==
  ASSUME NEW S, NEW T, IsFiniteSet(T), NEW n \in [S -> Nat],
         \A x \in S : n[x] > 0 => n[x] = 1 /\ x \in T
  PROVE  Count(n) <= Cardinality(T) /\ Count(n) \in Nat /\ Cardinality(T) \in Nat
<1> DEFINE P == UNION {{x} \X (1..n[x]) : x \in DOMAIN n}
           f == [z \in P |-> z[1]]
<1>1. ASSUME NEW z \in P PROVE z = <<z[1], 1>> /\ z[1] \in T
  <2>1. PICK x \in S : z \in {x} \X (1..n[x])
    BY <1>1
  <2>2. n[x] = 1 /\ x \in T
    BY <2>1
  <2> QED
    BY <2>1, <2>2
<1>2. f \in [P -> T] /\ \A y, z \in P : f[y] = f[z] => y = z
  <2>1. f \in [P -> T]
    BY <1>1
  <2> HIDE DEF P
  <2>2. ASSUME NEW y \in P, NEW z \in P, f[y] = f[z] PROVE y = z
    BY <1>1, <2>2
  <2> QED
    BY <2>1, <2>2
<1>3. f \in Injection(P, T)
  BY <1>2 DEF Injection, IsInjective
<1> HIDE DEF P, f
<1>4. IsFiniteSet(P) /\ Cardinality(P) <= Cardinality(T)
  BY <1>3, FS_Injection
<1>5. Count(n) = Cardinality(P)
  BY DEF Count, P
<1> QED
  BY <1>4, <1>5, FS_CardinalityType

LEMMA SpentOnceHolds == IInv => SpentOnce
<1> SUFFICES ASSUME IInv PROVE SpentOnce
  OBVIOUS
<1>1. ASSUME NEW e \in Effect
      PROVE  /\ files[e].callbacks <= 1
             /\ (state.epoch = "managed" /\ files[e].callbacks = 1) =>
                   state.entries[e] # None /\ state.entries[e].consumed
  <2>1. files[e].callbacks \in Nat /\ EffectInv(e)
    BY DEF IInv, TypeOK
  <2> QED
    BY <2>1 DEF EffectInv, CalledFor, Prepared, managedOf
<1>2. ASSUME NEW a \in Attempt
      PROVE  /\ exec[a].runs <= 1
             /\ exec[a].runs = 1 => state.epoch = "service" /\ state.entries[a] # None /\ state.entries[a].start
             /\ status(a) \in Results \ {"UNKNOWN"} => exec[a].runs = 1 /\ exec[a].exit = status(a)
  <2>1. exec[a].runs \in Nat /\ AttemptInv(a)
    BY DEF IInv, TypeOK
  <2>2. ASSUME status(a) \in Results \ {"UNKNOWN"} PROVE Resulted(a) /\ state.entries[a].result = status(a)
    <3>1. state.epoch = "service" /\ state.entries[a] # None /\ status(a) = state.entries[a].state
      BY <2>2 DEF status, Results
    <3>2. AttemptValid(state.entries[a])
      BY <3>1, OwnedServed
    <3> QED
      BY <2>2, <3>1, <3>2 DEF AttemptValid, EntryState, Results, Resulted, Admitted
  <2> QED
    BY <2>1, <2>2 DEF AttemptInv, Begun, Admitted
<1>3. ASSUME NEW p \in Process, pc[p] = "settled"
      PROVE  state.entries[ticket[p]].result = exec[ticket[p]].exit
  BY <1>3 DEF IInv, CallerInv, AttemptInv, WithAttempt
<1> QED
  BY <1>1, <1>2, <1>3 DEF SpentOnce

LEMMA NeverOversoldHolds == IInv => NeverOversold
<1> SUFFICES ASSUME IInv PROVE NeverOversold
  OBVIOUS
<1> DEFINE m == managedOf(state)
           n == [e \in Effect |-> files[e].callbacks]
           k == [a \in Attempt |-> exec[a].runs]
<1>1. state \in Record /\ TypeOK /\ ValidInv
  BY DEF IInv, TypeOK
<1>2. n \in [Effect -> Nat] /\ k \in [Attempt -> Nat]
  BY <1>1 DEF TypeOK
<1>3. \A e \in Effect : n[e] > 0 => n[e] = 1 /\ m.epoch = "managed" /\ m.entries[e] # None
  BY DEF IInv, EffectInv, CalledFor, Prepared
<1>4. \A a \in Attempt : k[a] > 0 => k[a] = 1 /\ state.epoch = "service" /\ state.entries[a] # None
  BY DEF IInv, AttemptInv, Begun, Admitted
<1> HIDE DEF n, k
<1>5. Count(n) \in Nat /\ Count(n) <= Effects(state)
  <2>1. CASE m.epoch = "managed"
    <3>1. IsFiniteSet(Entries(m)) /\ DOMAIN m.entries = Effect /\ Effects(state) = Cardinality(Entries(m))
      BY <1>1, <2>1, Shape, EntriesOf DEF Effects
    <3>2. \A e \in Effect : n[e] > 0 => n[e] = 1 /\ e \in Entries(m)
      BY <1>3, <3>1 DEF Entries
    <3> HIDE DEF m
    <3> QED
      BY <1>2, <3>1, <3>2, CountAtMost
  <2>2. CASE m.epoch # "managed"
    <3>1. \A e \in Effect : n[e] > 0 => n[e] = 1 /\ e \in {}
      BY <1>3, <2>2
    <3>2. IsFiniteSet({}) /\ Cardinality({}) = 0 /\ Effects(state) = 0
      BY <2>2, FS_EmptySet DEF Effects
    <3>3. Count(n) <= Cardinality({}) /\ Count(n) \in Nat
      BY <1>2, <3>1, <3>2, CountAtMost
    <3> QED
      BY <3>2, <3>3
  <2> QED
    BY <2>1, <2>2
<1>6. Count(k) \in Nat /\ Count(k) <= Attempts(state)
  <2>1. CASE state.epoch = "service"
    <3>1. IsFiniteSet(Entries(state)) /\ DOMAIN state.entries = Attempt
          /\ Attempts(state) = Cardinality(Entries(state))
      BY <1>1, <2>1, Shape, EntriesOf DEF Attempts
    <3>2. \A a \in Attempt : k[a] > 0 => k[a] = 1 /\ a \in Entries(state)
      BY <1>4, <3>1 DEF Entries
    <3> QED
      BY <1>2, <3>1, <3>2, CountAtMost
  <2>2. CASE state.epoch # "service"
    <3>1. \A a \in Attempt : k[a] > 0 => k[a] = 1 /\ a \in {}
      BY <1>4, <2>2
    <3>2. IsFiniteSet({}) /\ Cardinality({}) = 0 /\ Attempts(state) = 0
      BY <2>2, FS_EmptySet DEF Attempts
    <3>3. Count(k) <= Cardinality({}) /\ Count(k) \in Nat
      BY <1>2, <3>1, <3>2, CountAtMost
    <3> QED
      BY <3>2, <3>3
  <2> QED
    BY <2>1, <2>2
<1>7. /\ commonOf(state).slots + Effects(state) + Attempts(state)
           <= Slots + (IF m.epoch = "managed" THEN GrantSlots ELSE 0)
      /\ commonOf(state).slots \in Nat /\ Effects(state) \in Nat /\ Attempts(state) \in Nat
      /\ commonOf(state).retained + Attempts(state) <= Bytes /\ commonOf(state).retained \in Nat
      /\ Slots \in Nat /\ GrantSlots \in Nat /\ Bytes \in Nat
  BY <1>1, UsageIs, CapacityIs, Counted, ServicePoolAssumption DEF ValidInv
<1>8. /\ commonOf(state).slots + Count(n) + Count(k) <= Slots + (IF m.epoch = "managed" THEN GrantSlots ELSE 0)
      /\ commonOf(state).retained + Count(k) <= Bytes
  BY <1>5, <1>6, <1>7
<1> QED
  BY <1>8 DEF NeverOversold, commonOf, managedOf, n, k

\* Only the adapter, after before_launch has looked at the window, gets a check to its run.
LEMMA OnlyTheAdapter ==
  ASSUME TypeOK, NEW p \in Process, [Next]_vars, pc[p] # "ran", pc'[p] = "ran"
  PROVE  _execute(p)
<1>1. pc' # pc
  OBVIOUS
<1>2. PICK q \in Process : Step(q)
  BY <1>1 DEF Next, vars, common_change, Launch, me
<1>3. ASSUME NEW step \in Steps, Goto(q, step) PROVE q = p /\ step = "ran"
  BY <1>3 DEF Goto, TypeOK
<1>4. ASSUME NEW r, NEW told \in Steps, NEW failed \in Steps, _publish(q, r, told, failed)
      PROVE  q = p /\ (told = "ran" \/ failed = "ran")
  BY <1>3, <1>4 DEF _publish
<1>5. \A step \in Steps : step = "ran" \/ ~Goto(q, step)
  BY <1>3
<1>6. ~select(q) /\ ~Callback(q) /\ ~WriteComplete(q) /\ ~open(q) /\ ~claim(q) /\ ~WriteStart(q)
      /\ ~fresh(q) /\ ~before_launch(q) /\ ~fail(q) /\ ~Gone(q)
  BY <1>5 DEF select, Callback, WriteComplete, open, claim, WriteStart, fresh, before_launch, fail, Gone, Steps
<1>7. ~WriteManagedStart(q) /\ ~Expire(q)
  BY <1>1 DEF WriteManagedStart, Expire, me
<1>8. ASSUME NEW k, NEW x, NEW told \in Steps \ {"ran"}, NEW failed \in Steps \ {"ran"}
      PROVE  ~_change(q, k, x, told, failed)
  BY <1>4, Zenon DEF _change
<1>9. {"idle", "open", "prepared", "callback", "admitted", "consumed", "settled", "failed", "started"}
        \subseteq Steps \ {"ran"}
  BY DEF Steps
<1>10. /\ \A r : ~_publish(q, r, "open", "idle")
       /\ \A k, x : /\ ~_change(q, k, x, "prepared", "open") /\ ~_change(q, k, x, "callback", "open")
                    /\ ~_change(q, k, x, "open", "open") /\ ~_change(q, k, x, "admitted", "failed")
                    /\ ~_change(q, k, x, "consumed", "failed") /\ ~_change(q, k, x, "settled", "failed")
                    /\ ~_change(q, k, x, "idle", "idle")
       /\ ~Goto(q, "open") /\ ~Goto(q, "failed") /\ ~Goto(q, "idle")
  BY <1>4, <1>5, <1>8, <1>9
<1>11. ~apply_grant(q) /\ ~attach(q) /\ ~prepare_managed(q) /\ ~settle_managed(q) /\ ~mark_managed_unknown(q)
       /\ ~admit(q) /\ ~settle(q)
  BY <1>10, Zenon DEF apply_grant, attach, prepare_managed, settle_managed, mark_managed_unknown, admit, settle
<1>12. ~before_callback(q) /\ ~consume(q) /\ ~abandon(q)
  BY <1>10, Zenon DEF before_callback, consume, abandon
<1>13. ~mark_unknown(q)
  <2>1. pc[q] \in {"admitted", "started", "consumed"} => ~ \E k, x : _change(q, k, x, pc[q], pc[q])
    BY <1>8, <1>9
  <2> QED
    BY <2>1, Zenon DEF mark_unknown
<1>14. _execute(q)
  BY <1>2, <1>6, <1>7, <1>11, <1>12, <1>13 DEF Step
<1> QED
  BY <1>14, <1>3 DEF _execute, Steps

\* Types, for every instance.
THEOREM ServicePoolTypes == Spec => []TypeOK
<1>1. IInv => TypeOK
  BY DEF IInv
<1> QED
  BY ServicePoolInvariant, <1>1, PTL

\* A callback and an attempt are spent at most once, and what is reported is what was
\* observed: consume, before_callback, settle and status, across crashes and handlers.
THEOREM ServicePoolSpentOnce == Spec => []SpentOnce
  BY ServicePoolInvariant, SpentOnceHolds, PTL

\* The slots of the pool and of its grant bound what is dispatched, called back and run in
\* all epochs together.
THEOREM ServicePoolNeverOversold == Spec => []NeverOversold
  BY ServicePoolInvariant, NeverOversoldHolds, PTL

\* check_execution never launches on a consumption that was recorded after its window.
THEOREM ServicePoolLaunchedInTime == Spec => LaunchedInTime
<1>1. IInv /\ [Next]_vars =>
        [\A p \in Process : pc[p] # "ran" /\ pc'[p] = "ran" => ~exec[ticket[p]].late]_vars
  <2> SUFFICES ASSUME IInv, [Next]_vars, NEW p \in Process, pc[p] # "ran", pc'[p] = "ran"
               PROVE  ~exec[ticket[p]].late
    OBVIOUS
  <2>1. _execute(p)
    BY OnlyTheAdapter DEF IInv
  <2> QED
    BY <2>1 DEF _execute, IInv, CallerInv
<1> QED
  BY ServicePoolInvariant, <1>1, PTL DEF Spec, LaunchedInTime

\* Nothing charged is given back and no UNKNOWN becomes an observation, in any step of any
\* process, the start of the next epoch included.
THEOREM ServicePoolUnknownIsFinal == Spec => UnknownIsFinal
<1>1. IInv /\ [Next]_vars => [Final]_vars
  BY NextIInv
<1> QED
  BY ServicePoolInvariant, <1>1, PTL DEF Spec, UnknownIsFinal, Final
================================================================================
