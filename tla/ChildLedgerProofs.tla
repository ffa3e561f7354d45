--------------------------- MODULE ChildLedgerProofs ----------------------------
(***************************************************************************)
(* The journal of the child ledger for any number of callers, children,    *)
(* attempts and axes, any budget and any measurements.                     *)
(*                                                                         *)
(* OneGoAhead is not inductive: that the second of two callers is refused  *)
(* rests on the draft of a caller being an extension of the very state it  *)
(* replaces, which rests on the lock, which two callers hold only if it    *)
(* was taken while an unfinished publication was lying about.  The         *)
(* invariant states this chain.                                            *)
(*                                                                         *)
(* The second part is about totals: what booking one event does to the     *)
(* usage and to what is promised, and that the journal thereby implements  *)
(* ChildBudget.                                                            *)
(***************************************************************************)
EXTENDS ChildLedger, FiniteSetTheorems, WellFoundedInduction, TLAPS

Drafting == {"pending", "fill", "replace"}
Creating == {"lock", "state", "fill_state"}

\* The lock is with the one caller that works under it.
LockHeld == \A c \in Caller : pc[c] \in Locked <=> holder = c

\* One caller creates the ledger, and nobody publishes before it is through.
Creation ==
  /\ ~root => state = None /\ \A c \in Caller : pc[c] \notin Creating
  /\ \A c, d \in Caller : pc[c] \in Creating /\ pc[d] \in Creating => c = d
  /\ \A c \in Caller : pc[c] \in Creating => state \in {None, Partial}
  /\ \A c \in Caller : pc[c] \in Drafting \union {"sync"} => state \in Body
  /\ pending # None => state \in Body

\* What the next body keeps of the one it is made from.
Extends(new, old) ==
  \A ch \in Child, kind \in Kind :
    event(old.children[ch], kind) # None =>
      event(new.children[ch], kind) = event(old.children[ch], kind)

\* The row an operation makes of child ch's: the next event in order, a reservation only
\* of what the budget has left.
Booked(children, ch, row) ==
  LET old == children[ch] IN
  \/ /\ old = NoEvents
     /\ \E attempt \in Attempt, request \in Request :
          /\ row = [NoEvents EXCEPT !.attempt = attempt, !.reservation = request]
          /\ \A a \in Axis : _usage(children)[a] + request[a] <= Limit[a]
  \/ /\ old.reservation # None /\ old.dispatch = None
     /\ row = [old EXCEPT !.dispatch = "INTENT_RECORDED"]
  \/ /\ old.dispatch # None /\ old.completion = None
     /\ \E performed \in Service, measured \in Measurement :
          row = [old EXCEPT !.completion = [performed |-> performed, measured |-> measured]]
  \/ /\ old.completion # None /\ old.settlement = None
     /\ old.completion.measured \in Measurement
     /\ row = [old EXCEPT !.settlement = Settled(old.completion)]

\* The rows of b with one child's row booked.
BookedOn(new, b) ==
  \E ch \in Child, row \in Row :
    new.children = [b.children EXCEPT ![ch] = row] /\ Booked(b.children, ch, row)

\* A draft is a verified extension of the state it will replace by one event, and a
\* dispatch that is being recorded was not on record.
Drafted ==
  \A c \in Caller : pc[c] \in Drafting =>
    /\ draft[c] \in Body
    /\ verify_report(draft[c])
    /\ Extends(draft[c], state)
    /\ BookedOn(draft[c], state)
    /\ starting[c] # None =>
         /\ state.children[starting[c]].dispatch = None
         /\ draft[c].children[starting[c]].dispatch # None

\* Where pending.json stands at each step of the one publication under way.
Publication ==
  \A c \in Caller :
    /\ pc[c] \in {"action", "pending", "sync"} => pending = None
    /\ pc[c] = "replace" => pending = draft[c]

\* A dispatch that is published and not yet confirmed was never confirmed before.
Unconfirmed ==
  \A c \in Caller :
    /\ pc[c] \notin Drafting \union {"sync"} => starting[c] = None
    /\ pc[c] = "sync" /\ starting[c] # None =>
         state.children[starting[c]].dispatch # None /\ goAheads[starting[c]] = 0

IInv ==
  /\ TypeOK
  /\ LockHeld
  /\ Creation
  /\ Drafted
  /\ Publication
  /\ Unconfirmed
  /\ StateVerifies
  /\ OneGoAhead

\* The row with one more event differs from the old one in that event only.
OneMore(row, old, kind) ==
  /\ event(old, kind) = None
  /\ event(row, kind) # None
  /\ \A k \in Kind \ {kind} : event(row, k) = event(old, k)

\* One more event in order is one more revision, and it verifies.
LEMMA OneMoreVerifies ==
  ASSUME NEW b \in Body, verify_report(b), NEW ch \in Child, NEW row \in Row, NEW kind \in Kind,
         OneMore(row, b.children[ch], kind),
         OrderedRow(row),
         \/ row.attempt = b.children[ch].attempt
         \/ \A x \in Child : b.children[x].attempt # row.attempt,
         NEW new,
         new = [children |-> [b.children EXCEPT ![ch] = row], revision |-> b.revision + 1]
  PROVE  new \in Body /\ verify_report(new) /\ Extends(new, b)
<1> USE LedgerAssumption
<1>1. new \in Body /\ new.children = [b.children EXCEPT ![ch] = row] /\ new.revision = b.revision + 1
  BY DEF Body
<1>2. /\ new.children[ch] = row
      /\ \A x \in Child \ {ch} : new.children[x] = b.children[x]
  BY <1>1 DEF Body
<1>3. Extends(new, b)
  BY <1>2 DEF Extends, OneMore
<1>4. \A x \in Child : OrderedRow(new.children[x])
  BY <1>2 DEF verify_report
<1>5. \A x, y \in Child :
        new.children[x].attempt = new.children[y].attempt /\ new.children[x].attempt # None => x = y
  BY <1>2 DEF verify_report
<1>6. new.revision = Cardinality(Events(new.children))
  <2>1. Events(new.children) = Events(b.children) \union {<<ch, kind>>}
    BY <1>2 DEF Events, OneMore
  <2>2. <<ch, kind>> \notin Events(b.children)
    BY DEF Events, OneMore
  <2>3. IsFiniteSet(Kind)
    <3>1. IsFiniteSet({"reservation"}) /\ IsFiniteSet({"dispatch"})
      BY FS_Singleton
    <3>2. IsFiniteSet({"completion"}) /\ IsFiniteSet({"settlement"})
      BY FS_Singleton
    <3>3. IsFiniteSet({"reservation"} \union {"dispatch"})
      BY <3>1, FS_Union
    <3>4. IsFiniteSet({"completion"} \union {"settlement"})
      BY <3>2, FS_Union
    <3>5. IsFiniteSet(({"reservation"} \union {"dispatch"}) \union ({"completion"} \union {"settlement"}))
      BY <3>3, <3>4, FS_Union
    <3>6. Kind = ({"reservation"} \union {"dispatch"}) \union ({"completion"} \union {"settlement"})
      BY DEF Kind
    <3> QED
      BY <3>5, <3>6
  <2>4. IsFiniteSet(Events(b.children))
    <3>1. IsFiniteSet(Child \X Kind)
      BY <2>3, FS_Product
    <3> QED
      BY <3>1, FS_Subset DEF Events
  <2>5. Cardinality(Events(new.children)) = Cardinality(Events(b.children)) + 1
    BY <2>1, <2>2, <2>4, FS_AddElement
  <2> QED
    BY <1>1, <2>5 DEF verify_report
<1>7. new \notin {None, Partial}
  BY <1>1
<1> QED
  BY <1>1, <1>3, <1>4, <1>5, <1>6, <1>7 DEF verify_report

--------------------------------------------------------------------------------
(* What the operations come to: a call that ends with nothing published, or a   *)
(* draft ready to be.                                                           *)

Ends(c) == Leave(c) /\ UNCHANGED <<files, goAheads>>

Drafts(c, new, s) ==
  /\ pc[c] = "action"
  /\ pc' = [pc EXCEPT ![c] = "pending"]
  /\ draft' = [draft EXCEPT ![c] = new]
  /\ starting' = [starting EXCEPT ![c] = s]
  /\ state \in Body
  /\ new \in Body
  /\ verify_report(new)
  /\ Extends(new, state)
  /\ BookedOn(new, state)
  /\ s \in Child \union {None}
  /\ s # None => state.children[s].dispatch = None /\ new.children[s].dispatch # None
  /\ UNCHANGED <<files, holder, goAheads>>

\* One child's row, typed, in order, and present in a verified state.
LEMMA Verified ==
  ASSUME TypeOK, verify_report(state), NEW ch \in Child
  PROVE  state \in Body /\ state.children[ch] \in Row /\ OrderedRow(state.children[ch])
BY DEF TypeOK, verify_report, Body

\* An allowed change by one event in order drafts a verified extension.
LEMMA ChangeDrafts ==
  ASSUME TypeOK, NEW c \in Caller, NEW ch \in Child, NEW allowed, NEW row, NEW kind \in Kind,
         _change(c, ch, allowed, row),
         verify_report(state) /\ allowed =>
           /\ row \in Row
           /\ OneMore(row, state.children[ch], kind)
           /\ OrderedRow(row)
           /\ Booked(state.children, ch, row)
           /\ \/ row.attempt = state.children[ch].attempt
              \/ \A x \in Child : state.children[x].attempt # row.attempt
  PROVE  \/ Ends(c) /\ pc'[c] = "idle"
         \/ /\ allowed
            /\ pc[c] = "action" /\ pc' = [pc EXCEPT ![c] = "pending"]
            /\ \E new : /\ draft' = [draft EXCEPT ![c] = new]
                       /\ state \in Body /\ new \in Body
                       /\ verify_report(new) /\ Extends(new, state) /\ BookedOn(new, state)
                       /\ new.children[ch] = row
            /\ UNCHANGED <<files, holder, goAheads>>
<1>1. CASE verify_report(state) /\ allowed /\ state.revision < MaxEvents
  <2> DEFINE new == [children |-> [state.children EXCEPT ![ch] = row],
                     revision |-> state.revision + 1]
  <2>1. state \in Body
    BY <1>1, Verified
  <2>2. new \in Body /\ verify_report(new) /\ Extends(new, state)
    BY <1>1, <2>1, OneMoreVerifies
  <2>3. new.children[ch] = row
    BY <2>1 DEF Body
  <2>4. draft' = [draft EXCEPT ![c] = new]
    BY <1>1 DEF _change
  <2>5. BookedOn(new, state)
    BY <1>1 DEF BookedOn
  <2> HIDE DEF new
  <2> QED
    BY <1>1, <2>1, <2>2, <2>3, <2>4, <2>5 DEF _change, Goto
<1>2. CASE ~(verify_report(state) /\ allowed /\ state.revision < MaxEvents)
  BY <1>2 DEF _change, Ends, Leave, TypeOK
<1> QED
  BY <1>1, <1>2

\* Every operation ends, or drafts.
LEMMA OperateDrafts ==
  ASSUME TypeOK, Unconfirmed, NEW c \in Caller, Operate(c)
  PROVE  Ends(c) \/ \E new, s : Drafts(c, new, s)
<1> USE LedgerAssumption
<1>1. CASE reserve(c)
  <2>1. PICK ch \in Child, attempt \in Attempt, request \in Request :
          /\ _change(c, ch, verify_report(state) /\ Affordable(state.children, ch, attempt, request),
                     [NoEvents EXCEPT !.attempt = attempt, !.reservation = request])
          /\ starting' = [starting EXCEPT ![c] = None]
    BY <1>1 DEF reserve
  <2> DEFINE row == [NoEvents EXCEPT !.attempt = attempt, !.reservation = request]
             allowed == verify_report(state) /\ Affordable(state.children, ch, attempt, request)
  <2>2. row \in Row /\ row.attempt = attempt /\ row.reservation = request
    BY DEF Row, NoEvents
  <2>3. OrderedRow(row) /\ row.dispatch = None /\ row.completion = None /\ row.settlement = None
    BY <2>2 DEF OrderedRow, NoEvents
  <2>4. ASSUME verify_report(state), allowed
        PROVE  /\ OneMore(row, state.children[ch], "reservation")
               /\ Booked(state.children, ch, row)
               /\ \A x \in Child : state.children[x].attempt # row.attempt
    <3>1. state.children[ch].reservation = None /\ \A x \in Child : state.children[x].attempt # attempt
      BY <2>4 DEF Affordable
    <3>2. state.children[ch] = NoEvents
      BY <2>4, <3>1, Verified DEF OrderedRow
    <3>3. row.reservation # None
      BY <2>2
    <3>4. \A a \in Axis : _usage(state.children)[a] + request[a] <= Limit[a]
      BY <2>4 DEF Affordable
    <3>5. Booked(state.children, ch, row)
      BY <3>2, <3>4 DEF Booked
    <3>6. OneMore(row, state.children[ch], "reservation")
      BY <2>2, <2>3, <3>2, <3>3 DEF OneMore, event, Kind, NoEvents
    <3> QED
      BY <2>2, <3>1, <3>5, <3>6
  <2>5. "reservation" \in Kind
    BY DEF Kind
  <2> HIDE DEF row, allowed
  <2>6. _change(c, ch, allowed, row)
    BY <2>1 DEF row, allowed
  <2> QED
    BY <2>1, <2>2, <2>3, <2>4, <2>5, <2>6, ChangeDrafts DEF Drafts
<1>2. CASE dispatch_record(c)
  <2>1. PICK ch \in Child, attempt \in Attempt :
          /\ _change(c, ch, _child(ch, attempt) /\ state.children[ch].dispatch = None,
                     [state.children[ch] EXCEPT !.dispatch = "INTENT_RECORDED"])
          /\ starting' = [starting EXCEPT ![c] = IF pc'[c] = "idle" THEN None ELSE ch]
    BY <1>2 DEF dispatch_record
  <2> DEFINE row == [state.children[ch] EXCEPT !.dispatch = "INTENT_RECORDED"]
             allowed == _child(ch, attempt) /\ state.children[ch].dispatch = None
  <2>4. ASSUME verify_report(state), allowed
        PROVE  /\ row \in Row /\ OneMore(row, state.children[ch], "dispatch")
               /\ OrderedRow(row) /\ row.attempt = state.children[ch].attempt
               /\ row.dispatch # None /\ state.children[ch].dispatch = None
               /\ Booked(state.children, ch, row)
    <3>1. state.children[ch] \in Row /\ OrderedRow(state.children[ch])
      BY <2>4, Verified
    <3>2. Booked(state.children, ch, row)
      BY <2>4 DEF Booked, _child
    <3> QED
      BY <2>4, <3>1, <3>2 DEF OneMore, event, Kind, Row, OrderedRow, _child
  <2>5. "dispatch" \in Kind
    BY DEF Kind
  <2>7. allowed => verify_report(state)
    BY DEF _child
  <2> HIDE DEF row, allowed
  <2>6. _change(c, ch, allowed, row)
    BY <2>1 DEF row, allowed
  <2>8. CASE Ends(c) /\ pc'[c] = "idle"
    BY <2>8
  <2>9. CASE /\ allowed
             /\ pc[c] = "action" /\ pc' = [pc EXCEPT ![c] = "pending"]
             /\ \E new : /\ draft' = [draft EXCEPT ![c] = new]
                        /\ state \in Body /\ new \in Body
                        /\ verify_report(new) /\ Extends(new, state) /\ BookedOn(new, state)
                        /\ new.children[ch] = row
             /\ UNCHANGED <<files, holder, goAheads>>
    <3>1. starting' = [starting EXCEPT ![c] = ch]
      BY <2>1, <2>9 DEF TypeOK
    <3> QED
      BY <2>4, <2>7, <2>9, <3>1 DEF Drafts
  <2> QED
    BY <2>4, <2>5, <2>6, <2>8, <2>9, ChangeDrafts
<1>3. CASE complete(c)
  <2>1. PICK ch \in Child, attempt \in Attempt, performed \in Service, measured \in Measurement :
          /\ _change(c, ch,
                     /\ _child(ch, attempt)
                     /\ state.children[ch].dispatch # None
                     /\ state.children[ch].completion = None,
                     [state.children[ch] EXCEPT !.completion = [performed |-> performed,
                                                                measured |-> measured]])
          /\ starting' = [starting EXCEPT ![c] = None]
    BY <1>3 DEF complete
  <2> DEFINE completion == [performed |-> performed, measured |-> measured]
             row == [state.children[ch] EXCEPT !.completion = completion]
             allowed == /\ _child(ch, attempt)
                        /\ state.children[ch].dispatch # None
                        /\ state.children[ch].completion = None
  <2>2. completion \in Completion
    BY DEF Completion
  <2> HIDE DEF completion
  <2>4. ASSUME verify_report(state), allowed
        PROVE  /\ row \in Row /\ OneMore(row, state.children[ch], "completion")
               /\ OrderedRow(row) /\ row.attempt = state.children[ch].attempt
               /\ Booked(state.children, ch, row)
    <3>1. state.children[ch] \in Row /\ OrderedRow(state.children[ch])
      BY <2>4, Verified
    <3>2. completion # None
      BY <2>2
    <3>3. Booked(state.children, ch, row)
      BY <2>4 DEF Booked, completion
    <3> QED
      BY <2>2, <2>4, <3>1, <3>2, <3>3 DEF OneMore, event, Kind, Row, OrderedRow, _child
  <2>5. "completion" \in Kind
    BY DEF Kind
  <2>6. _change(c, ch, allowed, row)
    BY <2>1 DEF completion
  <2> HIDE DEF row, allowed
  <2> QED
    BY <2>1, <2>4, <2>5, <2>6, ChangeDrafts DEF Drafts
<1>4. CASE settle(c)
  <2>1. PICK ch \in Child, attempt \in Attempt, performed \in Service, measured \in Measurement :
          /\ _change(c, ch,
                     /\ _child(ch, attempt)
                     /\ state.children[ch].completion = [performed |-> performed, measured |-> measured]
                     /\ state.children[ch].settlement = None,
                     [state.children[ch] EXCEPT
                        !.settlement = Settled([performed |-> performed, measured |-> measured])])
          /\ starting' = [starting EXCEPT ![c] = None]
    BY <1>4 DEF settle
  <2> DEFINE completion == [performed |-> performed, measured |-> measured]
             row == [state.children[ch] EXCEPT !.settlement = Settled(completion)]
             allowed == /\ _child(ch, attempt)
                        /\ state.children[ch].completion = completion
                        /\ state.children[ch].settlement = None
  <2>2. completion \in Completion
    BY DEF Completion
  <2>3. Settled(completion) \in Amounts
    BY <2>2 DEF Settled, Completion, Amounts
  <2> HIDE DEF completion
  <2>4. ASSUME verify_report(state), allowed
        PROVE  /\ row \in Row /\ OneMore(row, state.children[ch], "settlement")
               /\ OrderedRow(row) /\ row.attempt = state.children[ch].attempt
               /\ Booked(state.children, ch, row)
    <3>1. state.children[ch] \in Row /\ OrderedRow(state.children[ch])
      BY <2>4, Verified
    <3>2. completion # None /\ Settled(completion) # None
      BY <2>2, <2>3
    <3>3. completion.measured \in Measurement
      BY DEF completion
    <3>4. Booked(state.children, ch, row)
      BY <2>4, <3>2, <3>3 DEF Booked
    <3> QED
      BY <2>2, <2>3, <2>4, <3>1, <3>2, <3>4 DEF OneMore, event, Kind, Row, OrderedRow, _child
  <2>5. "settlement" \in Kind
    BY DEF Kind
  <2>6. _change(c, ch, allowed, row)
    BY <2>1 DEF completion
  <2> HIDE DEF row, allowed
  <2> QED
    BY <2>1, <2>4, <2>5, <2>6, ChangeDrafts DEF Drafts
<1>5. CASE snapshot(c)
  BY <1>5 DEF snapshot, Ends
<1> QED
  BY <1>1, <1>2, <1>3, <1>4, <1>5 DEF Operate

--------------------------------------------------------------------------------
(* The invariant                                                                *)

\* What a step of caller c is.
Step(c) ==
  \/ Call(c) \/ Mkdir(c) \/ CreateLock(c) \/ CreateState(c) \/ FillState(c)
  \/ Ends(c)
  \/ Enter(c)
  \/ \E new, s : Drafts(c, new, s)
  \/ CreatePending(c) \/ FillPending(c) \/ Replace(c) \/ Return(c)

\* Every step is one of these.
LEMMA NextSteps ==
  ASSUME TypeOK, Unconfirmed, Next
  PROVE  \E c \in Caller : Step(c)
<1>1. PICK c \in Caller :
        Call(c) \/ Create(c) \/ Refused(c) \/ Enter(c) \/ Operate(c) \/ Publish(c) \/ Stop(c)
  BY DEF Next
<1>2. Refused(c) \/ Stop(c) => Ends(c)
  BY DEF Refused, Stop, Ends
<1>3. Operate(c) => Ends(c) \/ \E new, s : Drafts(c, new, s)
  BY OperateDrafts
<1> QED
  BY <1>1, <1>2, <1>3 DEF Step, Create, Publish

\* A state file that is not there or not whole is no body.
LEMMA NoBody == None \notin Body /\ Partial \notin Body
BY LedgerAssumption

\* The first body verifies.
LEMMA EmptyVerifies == Empty \in Body /\ verify_report(Empty)
<1> USE LedgerAssumption
<1>1. NoEvents \in Row
  BY DEF NoEvents, Row
<1>2. Empty \in Body
  BY <1>1 DEF Empty, Body
<1>3. Events(Empty.children) = {}
  BY DEF Events, Empty, event, NoEvents, Kind
<1> QED
  BY <1>2, <1>3, FS_EmptySet DEF verify_report, Empty, OrderedRow, NoEvents

\* The types.
LEMMA StepType ==
  ASSUME IInv, NEW c \in Caller, Step(c)
  PROVE  TypeOK'
<1> USE LedgerAssumption DEF TypeOK, Steps, files, Goto
<1>1. CASE Call(c) \/ CreateLock(c) \/ CreateState(c) \/ Enter(c)
  BY <1>1 DEF IInv, Call, CreateLock, CreateState, Enter
<1>2. CASE Mkdir(c) \/ FillState(c) \/ Ends(c)
  BY <1>2, EmptyVerifies DEF IInv, Mkdir, FillState, Ends, Leave
<1>3. CASE \E new, s : Drafts(c, new, s)
  BY <1>3 DEF IInv, Drafts
<1>4. CASE CreatePending(c) \/ FillPending(c) \/ Replace(c)
  BY <1>4 DEF IInv, CreatePending, FillPending, Replace
<1>5. CASE Return(c)
  BY <1>5 DEF IInv, Return, Leave
<1> QED
  BY <1>1, <1>2, <1>3, <1>4, <1>5 DEF Step

\* The lock, taken by one caller at a time, and the position of pending.json.
LEMMA StepLock ==
  ASSUME IInv, NEW c \in Caller, Step(c)
  PROVE  LockHeld' /\ Publication'
<1> USE LedgerAssumption DEF IInv, TypeOK, LockHeld, Publication, Locked, Steps, files, Goto
<1>1. CASE Call(c) \/ CreateLock(c) \/ CreateState(c)
  BY <1>1 DEF Call, CreateLock, CreateState
<1>2. CASE Mkdir(c) \/ FillState(c) \/ Ends(c) \/ Return(c)
  BY <1>2 DEF Mkdir, FillState, Ends, Leave, Return
<1>3. CASE \E new, s : Drafts(c, new, s)
  BY <1>3 DEF Drafts
<1>4. CASE CreatePending(c)
  BY <1>4 DEF CreatePending
<1>5. CASE FillPending(c)
  BY <1>5 DEF FillPending
<1>6. CASE Replace(c)
  BY <1>6 DEF Replace
<1>7. CASE Enter(c)
  BY <1>7 DEF Enter
<1> QED
  BY <1>1, <1>2, <1>3, <1>4, <1>5, <1>6, <1>7 DEF Step

\* One creator, and nobody drafts on a ledger that is not there.
LEMMA StepCreation ==
  ASSUME IInv, NEW c \in Caller, Step(c)
  PROVE  Creation'
<1> USE LedgerAssumption, NoBody DEF IInv, TypeOK, Creation, Creating, Drafting, Steps, files, Goto
<1>1. CASE Call(c) \/ CreateLock(c) \/ Enter(c)
  BY <1>1 DEF Call, CreateLock, Enter
<1>2. CASE CreateState(c)
  BY <1>2 DEF CreateState
<1>3. CASE FillState(c)
  BY <1>3, EmptyVerifies DEF FillState, Leave
<1>4. CASE Mkdir(c)
  BY <1>4 DEF Mkdir, Leave
<1>5. CASE Ends(c) \/ Return(c)
  BY <1>5 DEF Ends, Leave, Return
<1>6. CASE \E new, s : Drafts(c, new, s)
  BY <1>6 DEF Drafts
<1>7. CASE CreatePending(c) \/ FillPending(c)
  BY <1>7 DEF CreatePending, FillPending
<1>8. CASE Replace(c)
  BY <1>8 DEF Replace, Drafted, Publication
<1> QED
  BY <1>1, <1>2, <1>3, <1>4, <1>5, <1>6, <1>7, <1>8 DEF Step

\* Drafts stay extensions of the state they replace: only the lock's holder has one
\* and only its publication changes the state.
LEMMA StepDrafted ==
  ASSUME IInv, NEW c \in Caller, Step(c)
  PROVE  Drafted'
<1> USE NoBody DEF Drafting, files, Goto
<1>0. TypeOK /\ LockHeld /\ Creation /\ Drafted /\ pc \in [Caller -> Steps \union {"idle"}]
  BY DEF IInv, TypeOK
<1>1. ASSUME pc'[c] \notin Drafting, state' = state,
             \A d \in Caller \ {c} : pc'[d] = pc[d] /\ draft'[d] = draft[d] /\ starting'[d] = starting[d]
      PROVE  Drafted'
  BY <1>0, <1>1 DEF Drafted
<1>2. CASE Call(c) \/ CreateLock(c) \/ Enter(c)
  BY <1>0, <1>1, <1>2 DEF Call, CreateLock, Enter
<1>3. CASE Mkdir(c) \/ Ends(c) \/ Return(c)
  BY <1>0, <1>1, <1>3 DEF Mkdir, Ends, Return, Leave, TypeOK
<1>4. CASE CreateState(c) \/ FillState(c)
  <2>1. \A d \in Caller : pc[d] \notin Drafting
    BY <1>0, <1>4 DEF Creation, Creating, CreateState, FillState
  <2>2. \A d \in Caller : pc'[d] \notin Drafting
    BY <1>0, <1>4, <2>1 DEF CreateState, FillState, Leave
  <2> QED
    BY <2>2 DEF Drafted
<1>5. CASE \E new, s : Drafts(c, new, s)
  <2>1. PICK new, s : Drafts(c, new, s)
    BY <1>5
  <2>2. \A d \in Caller \ {c} : pc'[d] = pc[d] /\ draft'[d] = draft[d] /\ starting'[d] = starting[d]
    BY <2>1 DEF Drafts
  <2>3. draft'[c] = new /\ starting'[c] = s /\ state' = state
    BY <1>0, <2>1 DEF Drafts, TypeOK
  <2>4. /\ new \in Body /\ verify_report(new) /\ Extends(new, state) /\ BookedOn(new, state)
        /\ s # None => state.children[s].dispatch = None /\ new.children[s].dispatch # None
    BY <2>1 DEF Drafts
  <2> QED
    BY <1>0, <2>2, <2>3, <2>4 DEF Drafted
<1>6. CASE CreatePending(c) \/ FillPending(c)
  <2>1. /\ \A d \in Caller : pc'[d] \in Drafting => pc[d] \in Drafting
        /\ UNCHANGED <<draft, starting, state>>
    BY <1>0, <1>6 DEF CreatePending, FillPending
  <2> QED
    BY <1>0, <2>1 DEF Drafted
<1>7. CASE Replace(c)
  <2>1. \A d \in Caller : pc'[d] \notin Drafting
    BY <1>0, <1>7 DEF Replace, LockHeld, Locked
  <2> QED
    BY <2>1 DEF Drafted
<1> QED
  BY <1>2, <1>3, <1>4, <1>5, <1>6, <1>7 DEF Step

\* The published events after a step: those there were, and after Replace the draft's.
LEMMA StepRows ==
  ASSUME IInv, NEW c \in Caller, Step(c)
  PROVE  /\ ~Replace(c) => Rows' = Rows
         /\ Replace(c) => /\ state \in Body /\ Rows = state.children
                          /\ state' = draft[c] /\ Rows' = draft[c].children
                          /\ draft[c] \in Body /\ verify_report(draft[c]) /\ Extends(draft[c], state)
                          /\ BookedOn(draft[c], state)
<1> USE NoBody DEF files, Goto
<1>1. CASE Replace(c)
  BY <1>1 DEF Replace, IInv, Drafted, Drafting, Publication, Creation, Rows
<1>2. CASE CreateState(c) \/ FillState(c)
  <2>1. pc[c] # "replace"
    BY <1>2 DEF CreateState, FillState
  <2>2. state \in {None, Partial}
    BY <1>2 DEF CreateState, FillState, IInv, Creation, Creating
  <2>3. state' = Partial \/ state' = Empty
    BY <1>2 DEF CreateState, FillState
  <2> QED
    BY <2>1, <2>2, <2>3, EmptyVerifies DEF Rows, Replace
<1>3. CASE state' = state
  BY <1>1, <1>3 DEF Rows
<1>4. Replace(c) \/ CreateState(c) \/ FillState(c) \/ state' = state
  BY DEF Step, Call, Mkdir, CreateLock, Ends, Enter, Drafts, CreatePending, FillPending, Return
<1> QED
  BY <1>1, <1>2, <1>3, <1>4

\* What is published verifies.
LEMMA StepStateVerifies ==
  ASSUME IInv, NEW c \in Caller, Step(c)
  PROVE  StateVerifies'
<1>1. CASE Replace(c)
  BY <1>1, StepRows, NoBody DEF StateVerifies
<1>2. CASE CreateState(c) \/ FillState(c)
  BY <1>2, EmptyVerifies DEF CreateState, FillState, StateVerifies
<1>3. CASE state' = state
  BY <1>3 DEF IInv, StateVerifies
<1>4. Replace(c) \/ CreateState(c) \/ FillState(c) \/ state' = state
  BY DEF Step, Call, Mkdir, CreateLock, Ends, Enter, Drafts, CreatePending, FillPending, Return, files
<1> QED
  BY <1>1, <1>2, <1>3, <1>4

\* A dispatch on record stays on record.
LEMMA DispatchStays ==
  ASSUME IInv, NEW c \in Caller, Step(c), NEW ch \in Child, Rows[ch].dispatch # None
  PROVE  Rows'[ch].dispatch # None
<1>1. CASE Replace(c)
  BY <1>1, StepRows DEF Extends, event, Kind
<1>2. CASE ~Replace(c)
  BY <1>2, StepRows
<1> QED
  BY <1>1, <1>2

\* A dispatch between its publication and its confirmation.
LEMMA StepUnconfirmed ==
  ASSUME IInv, NEW c \in Caller, Step(c)
  PROVE  Unconfirmed'
<1> USE LedgerAssumption, NoBody DEF Drafting, files, Goto
<1>0. TypeOK /\ LockHeld /\ Creation /\ Unconfirmed /\ OneGoAhead
  BY DEF IInv
<1>1. ASSUME pc'[c] # "sync", pc'[c] \notin Drafting => starting'[c] = None,
             state' = state, goAheads' = goAheads,
             \A d \in Caller \ {c} : pc'[d] = pc[d] /\ starting'[d] = starting[d]
      PROVE  Unconfirmed'
  BY <1>0, <1>1 DEF Unconfirmed
<1>2. CASE Call(c) \/ CreateLock(c) \/ Enter(c) \/ CreatePending(c) \/ FillPending(c)
  BY <1>0, <1>1, <1>2 DEF Call, CreateLock, Enter, CreatePending, FillPending, Unconfirmed, TypeOK
<1>3. CASE Mkdir(c) \/ Ends(c)
  BY <1>0, <1>1, <1>3 DEF Mkdir, Ends, Leave, Unconfirmed, TypeOK
<1>4. CASE \E new, s : Drafts(c, new, s)
  BY <1>0, <1>1, <1>4 DEF Drafts, TypeOK
<1>5. CASE CreateState(c) \/ FillState(c)
  <2>1. \A d \in Caller : pc[d] # "sync"
    BY <1>0, <1>5 DEF Creation, Creating, CreateState, FillState
  <2> QED
    BY <1>0, <1>5, <2>1 DEF CreateState, FillState, Leave, Unconfirmed, TypeOK
<1>6. CASE Replace(c)
  <2>1. /\ \A d \in Caller \ {c} : pc'[d] = pc[d] /\ pc[d] \notin Drafting \union {"sync"}
        /\ pc[c] = "replace" /\ pc'[c] = "sync" /\ UNCHANGED <<starting, goAheads>>
    BY <1>0, <1>6 DEF Replace, LockHeld, Locked, TypeOK
  <2>2. ASSUME starting[c] # None
        PROVE  state'.children[starting[c]].dispatch # None /\ goAheads[starting[c]] = 0
    <3>1. starting[c] \in Child /\ goAheads[starting[c]] \in Nat
      BY <1>0, <2>2 DEF TypeOK
    <3>2. /\ state.children[starting[c]].dispatch = None
          /\ draft[c].children[starting[c]].dispatch # None
      BY <2>1, <2>2 DEF IInv, Drafted
    <3>3. Rows = state.children /\ state' = draft[c]
      BY <1>6, StepRows
    <3> QED
      BY <1>0, <3>1, <3>2, <3>3 DEF OneGoAhead
  <2> QED
    BY <1>0, <2>1, <2>2 DEF Unconfirmed
<1>7. CASE Return(c)
  <2>1. \A d \in Caller \ {c} : pc'[d] = pc[d] /\ pc[d] # "sync" /\ starting'[d] = starting[d]
    BY <1>0, <1>7 DEF Return, Leave, LockHeld, Locked, TypeOK
  <2>2. pc'[c] = "idle" /\ starting'[c] = None
    BY <1>0, <1>7 DEF Return, Leave, TypeOK
  <2> QED
    BY <1>0, <2>1, <2>2 DEF Unconfirmed
<1> QED
  BY <1>2, <1>3, <1>4, <1>5, <1>6, <1>7 DEF Step

\* The go-ahead is given by Return only, for a dispatch that had none.
LEMMA StepOneGoAhead ==
  ASSUME IInv, NEW c \in Caller, Step(c)
  PROVE  OneGoAhead'
<1> SUFFICES ASSUME NEW ch \in Child, goAheads'[ch] > 0
             PROVE  goAheads'[ch] = 1 /\ Rows'[ch].dispatch # None
  BY DEF OneGoAhead
<1>1. CASE goAheads' = goAheads
  BY <1>1, DispatchStays DEF IInv, OneGoAhead
<1>2. CASE Return(c)
  <2>1. goAheads'[ch] = IF starting[c] = ch THEN goAheads[ch] + 1 ELSE goAheads[ch]
    BY <1>2 DEF Return
  <2>2. CASE starting[c] = ch
    <3>1. ch # None /\ pc[c] = "sync" /\ state \in Body
      BY <1>2, <2>2, LedgerAssumption DEF Return, IInv, Creation
    <3>2. state.children[ch].dispatch # None /\ goAheads[ch] = 0
      BY <2>2, <3>1 DEF IInv, Unconfirmed
    <3>3. Rows[ch].dispatch # None
      BY <3>1, <3>2, NoBody DEF Rows
    <3> QED
      BY <2>1, <2>2, <3>2, <3>3, DispatchStays
  <2>3. CASE starting[c] # ch
    BY <2>1, <2>3, DispatchStays DEF IInv, OneGoAhead
  <2> QED
    BY <2>2, <2>3
<1> QED
  BY <1>1, <1>2 DEF Step, Call, Mkdir, CreateLock, CreateState, FillState, Ends, Enter, Drafts,
       CreatePending, FillPending, Replace

\* The invariant is inductive.
LEMMA Inductive == IInv /\ [Next]_vars => IInv'
<1> SUFFICES ASSUME IInv, [Next]_vars PROVE IInv'
  OBVIOUS
<1>1. CASE Next
  <2>1. PICK c \in Caller : Step(c)
    BY <1>1, NextSteps DEF IInv
  <2>2. TypeOK' /\ LockHeld' /\ Publication' /\ Creation'
    BY <2>1, StepType, StepLock, StepCreation
  <2>3. Drafted' /\ Unconfirmed' /\ StateVerifies' /\ OneGoAhead'
    BY <2>1, StepDrafted, StepUnconfirmed, StepStateVerifies, StepOneGoAhead
  <2> QED
    BY <2>2, <2>3 DEF IInv
<1>2. CASE UNCHANGED vars
  <2> USE <1>2 DEF vars, files
  <2>1. TypeOK' /\ LockHeld' /\ Publication'
    BY DEF IInv, TypeOK, LockHeld, Publication
  <2>2. Creation' /\ Drafted' /\ Unconfirmed'
    BY DEF IInv, Creation, Drafted, Unconfirmed
  <2>3. StateVerifies' /\ OneGoAhead'
    BY DEF IInv, StateVerifies, OneGoAhead, Rows
  <2> QED
    BY <2>1, <2>2, <2>3 DEF IInv
<1> QED
  BY <1>1, <1>2

\* It holds before anything exists.
LEMMA InitIInv == Init => IInv
<1> SUFFICES ASSUME Init PROVE IInv
  OBVIOUS
<1> USE LedgerAssumption DEF Init
<1>1. TypeOK /\ Publication /\ Creation
  BY DEF TypeOK, Publication, Creation, Creating, Drafting
<1>2. LockHeld /\ Drafted /\ Unconfirmed
  BY DEF LockHeld, Locked, Drafted, Drafting, Unconfirmed
<1>3. StateVerifies /\ OneGoAhead
  BY DEF StateVerifies, OneGoAhead
<1> QED
  BY <1>1, <1>2, <1>3 DEF IInv

\* The invariant of the ledger.
LEMMA Invariance == Spec => []IInv
<1>1. IInv /\ [Next]_vars => IInv'
  BY Inductive
<1> QED
  BY InitIInv, <1>1, PTL DEF Spec

--------------------------------------------------------------------------------
(* The totals of the ledger                                                     *)

\* A total is a function on a collection D of sets that takes out one member after
\* another, the way the folds of the community modules do.
First(s) == CHOOSE x \in s : TRUE
Solves(f, D, g) ==
  g = [s \in D |-> IF s = {} THEN 0 ELSE f[First(s)] + g[s \ {First(s)}]]

IsTotal(f, S, g) == Solves(f, SUBSET S, g)
Upto(S, n) == {s \in SUBSET S : Cardinality(s) <= n}

LEMMA FirstIsIn == ASSUME NEW s, s # {} PROVE First(s) \in s
  BY DEF First

\* Every set of numbers that is not empty has a smallest member.
LEMMA SmallestNumber ==
  ASSUME NEW B \in SUBSET Nat, B # {}
  PROVE  \E m \in B : \A k \in B : m <= k
<1> DEFINE R == {ss \in Nat \X Nat : ss[1] < ss[2]}
<1>1. IsWellFoundedOn(R, Nat)
  BY NatLessThanWellFounded, Zenon DEF OpToRel
<1> HIDE DEF R
<1>2. PICK m \in B : \A k \in B : ~(<<k, m>> \in R)
  BY <1>1, WFMin
<1>3. ASSUME NEW k \in B PROVE m <= k
  <2>1. k \in Nat /\ m \in Nat
    OBVIOUS
  <2>2. ~(k < m)
    BY <1>2, <2>1 DEF R
  <2> QED
    BY <2>1, <2>2
<1> QED
  BY <1>3

\* What is true of the empty set, and of a set whenever it is true of it without its
\* first member, is true of every part of a finite set.  Good is the set of those of
\* which it is true.
LEMMA PartByPart ==
  ASSUME NEW S, IsFiniteSet(S), NEW Good, {} \in Good,
         \A s \in SUBSET S : s # {} /\ s \ {First(s)} \in Good => s \in Good
  PROVE  \A s \in SUBSET S : s \in Good
<1> DEFINE B == {n \in Nat : \E s \in SUBSET S : Cardinality(s) = n /\ s \notin Good}
<1>1. \A s \in SUBSET S : IsFiniteSet(s) /\ Cardinality(s) \in Nat
  BY FS_Subset, FS_CardinalityType
<1>2. B = {}
  <2> SUFFICES ASSUME B # {} PROVE FALSE
    OBVIOUS
  <2>1. PICK n \in B : \A k \in B : n <= k
    BY SmallestNumber
  <2>2. PICK s \in SUBSET S : Cardinality(s) = n /\ s \notin Good
    BY <2>1
  <2> DEFINE t == s \ {First(s)}
  <2>3. First(s) \in s /\ t \in SUBSET S /\ t \notin Good
    BY <2>2, FirstIsIn
  <2>4. Cardinality(t) \in Nat /\ Cardinality(t) < n
    <3>1. Cardinality(t) = Cardinality(s) - 1
      BY <1>1, <2>3, FS_RemoveElement
    <3> QED
      BY <1>1, <2>1, <2>2, <2>3, <3>1
  <2>5. Cardinality(t) \in B
    BY <2>3, <2>4
  <2> HIDE DEF B, t
  <2>6. n <= Cardinality(t)
    BY <2>1, <2>5
  <2>7. n \in Nat
    BY <2>1 DEF B
  <2> QED
    BY <2>4, <2>6, <2>7
<1> QED
  BY <1>1, <1>2

\* There is a total over every finite set: the functions on the parts of up to n
\* members solve the recursion for every n.
LEMMA TotalExists ==
  ASSUME NEW f, NEW S, IsFiniteSet(S)
  PROVE  \E g : IsTotal(f, S, g)
<1> DEFINE B == {n \in Nat : ~\E g : Solves(f, Upto(S, n), g)}
<1>1. \A s \in SUBSET S : IsFiniteSet(s) /\ Cardinality(s) \in Nat
  BY FS_Subset, FS_CardinalityType
<1>2. B = {}
  <2> SUFFICES ASSUME B # {} PROVE FALSE
    OBVIOUS
  <2>1. PICK n \in B : \A k \in B : n <= k
    BY SmallestNumber
  <2>2. CASE n = 0
    <3> DEFINE g == [s \in Upto(S, 0) |-> 0]
    <3>1. \A s \in Upto(S, 0) : s = {}
      BY <1>1, FS_EmptySet DEF Upto
    <3>2. Solves(f, Upto(S, 0), g)
      BY <3>1 DEF Solves
    <3> QED
      BY <2>1, <2>2, <3>2
  <2>3. CASE n # 0
    <3>1. n - 1 \in Nat /\ n - 1 < n
      BY <2>1, <2>3
    <3>2. PICK h : Solves(f, Upto(S, n - 1), h)
      BY <2>1, <3>1
    <3> DEFINE g == [s \in Upto(S, n) |-> IF s = {} THEN 0 ELSE f[First(s)] + h[s \ {First(s)}]]
    <3>3. ASSUME NEW s \in Upto(S, n), s # {} PROVE g[s \ {First(s)}] = h[s \ {First(s)}]
      <4> DEFINE t == s \ {First(s)}
      <4>1. First(s) \in s
        BY <3>3, FirstIsIn
      <4>2. Cardinality(t) = Cardinality(s) - 1
        <5>1. IsFiniteSet(s)
          BY <1>1 DEF Upto
        <5> QED
          BY <4>1, <5>1, FS_RemoveElement
      <4>3. t \in Upto(S, n - 1) /\ t \in Upto(S, n)
        BY <1>1, <2>1, <4>2 DEF Upto
      <4>4. h[t] = IF t = {} THEN 0 ELSE f[First(t)] + h[t \ {First(t)}]
        BY <3>2, <4>3 DEF Solves
      <4>5. g[t] = IF t = {} THEN 0 ELSE f[First(t)] + h[t \ {First(t)}]
        BY <4>3
      <4> QED
        BY <4>4, <4>5
    <3>4. Solves(f, Upto(S, n), g)
      BY <3>3 DEF Solves
    <3> QED
      BY <2>1, <3>4
  <2> QED
    BY <2>2, <2>3
<1>3. Cardinality(S) \in Nat /\ Cardinality(S) \notin B
  BY <1>1, <1>2
<1>4. PICK g : Solves(f, Upto(S, Cardinality(S)), g)
  BY <1>3
<1>5. Upto(S, Cardinality(S)) = SUBSET S
  BY FS_Subset DEF Upto
<1> QED
  BY <1>4, <1>5 DEF IsTotal

\* One step of a total.
LEMMA TotalStep ==
  ASSUME NEW f, NEW S, NEW g, IsTotal(f, S, g)
  PROVE  /\ g[{}] = 0
         /\ \A s \in SUBSET S : s # {} => g[s] = f[First(s)] + g[s \ {First(s)}]
<1>1. \A s \in SUBSET S : g[s] = IF s = {} THEN 0 ELSE f[First(s)] + g[s \ {First(s)}]
  BY DEF IsTotal, Solves
<1> QED
  BY <1>1

\* A total of numbers is a number.
LEMMA TotalType ==
  ASSUME NEW S, IsFiniteSet(S), NEW f, \A x \in S : f[x] \in Nat, NEW g, IsTotal(f, S, g)
  PROVE  \A s \in SUBSET S : g[s] \in Nat
<1>a. g[{}] = 0 /\ \A s \in SUBSET S : s # {} => g[s] = f[First(s)] + g[s \ {First(s)}]
  BY TotalStep
<1> DEFINE Good == {s \in SUBSET S : g[s] \in Nat}
<1>1. {} \in Good
  BY <1>a
<1>2. ASSUME NEW s \in SUBSET S, s # {}, s \ {First(s)} \in Good PROVE s \in Good
  <2>1. f[First(s)] \in Nat
    BY <1>2, FirstIsIn
  <2>2. g[s] = f[First(s)] + g[s \ {First(s)}]
    BY <1>2, <1>a
  <2> QED
    BY <1>2, <2>1, <2>2
<1>3. \A s \in SUBSET S : s \in Good
  <2> HIDE DEF Good
  <2> QED
    BY <1>1, <1>2, PartByPart
<1> QED
  BY <1>3

\* A total of nothing is nothing.
LEMMA TotalOfNothing ==
  ASSUME NEW S, IsFiniteSet(S), NEW f, \A x \in S : f[x] = 0, NEW g, IsTotal(f, S, g)
  PROVE  g[S] = 0
<1>a. g[{}] = 0 /\ \A s \in SUBSET S : s # {} => g[s] = f[First(s)] + g[s \ {First(s)}]
  BY TotalStep
<1> DEFINE Good == {s \in SUBSET S : g[s] = 0}
<1>1. {} \in Good
  BY <1>a
<1>2. ASSUME NEW s \in SUBSET S, s # {}, s \ {First(s)} \in Good PROVE s \in Good
  <2>1. f[First(s)] = 0
    BY <1>2, FirstIsIn
  <2>2. g[s] = f[First(s)] + g[s \ {First(s)}]
    BY <1>2, <1>a
  <2> QED
    BY <1>2, <2>1, <2>2
<1>3. \A s \in SUBSET S : s \in Good
  <2> HIDE DEF Good
  <2> QED
    BY <1>1, <1>2, PartByPart
<1> QED
  BY <1>3

\* A total of terms none of which is larger is not larger.
LEMMA TotalMonotone ==
  ASSUME NEW S, IsFiniteSet(S), NEW f, NEW h, \A x \in S : f[x] \in Nat /\ h[x] \in Nat /\ f[x] <= h[x],
         NEW g, IsTotal(f, S, g), NEW k, IsTotal(h, S, k)
  PROVE  g[S] <= k[S]
<1>a. g[{}] = 0 /\ \A s \in SUBSET S : s # {} => g[s] = f[First(s)] + g[s \ {First(s)}]
  BY TotalStep
<1>b. k[{}] = 0 /\ \A s \in SUBSET S : s # {} => k[s] = h[First(s)] + k[s \ {First(s)}]
  BY TotalStep
<1> DEFINE Good == {s \in SUBSET S : g[s] <= k[s]}
<1>0. \A s \in SUBSET S : g[s] \in Nat /\ k[s] \in Nat
  BY TotalType
<1>1. {} \in Good
  BY <1>a, <1>b
<1>2. ASSUME NEW s \in SUBSET S, s # {}, s \ {First(s)} \in Good PROVE s \in Good
  <2> DEFINE t == s \ {First(s)}
  <2>1. f[First(s)] \in Nat /\ h[First(s)] \in Nat /\ f[First(s)] <= h[First(s)]
    BY <1>2, FirstIsIn
  <2>2. g[s] = f[First(s)] + g[t] /\ k[s] = h[First(s)] + k[t]
    BY <1>2, <1>a, <1>b
  <2>3. g[t] \in Nat /\ k[t] \in Nat /\ g[t] <= k[t]
    BY <1>0, <1>2
  <2> HIDE DEF t
  <2> QED
    BY <2>1, <2>2, <2>3
<1>3. \A s \in SUBSET S : s \in Good
  <2> HIDE DEF Good
  <2> QED
    BY <1>1, <1>2, PartByPart
<1> QED
  BY <1>3

\* A term that changes changes a total by as much.
LEMMA TotalChange ==
  ASSUME NEW S, IsFiniteSet(S), NEW f, NEW h, \A x \in S : f[x] \in Nat /\ h[x] \in Nat,
         NEW y \in S, \A x \in S \ {y} : h[x] = f[x],
         NEW g, IsTotal(f, S, g), NEW k, IsTotal(h, S, k)
  PROVE  k[S] = g[S] + h[y] - f[y]
<1>a. g[{}] = 0 /\ \A s \in SUBSET S : s # {} => g[s] = f[First(s)] + g[s \ {First(s)}]
  BY TotalStep
<1>b. k[{}] = 0 /\ \A s \in SUBSET S : s # {} => k[s] = h[First(s)] + k[s \ {First(s)}]
  BY TotalStep
<1> DEFINE Shifted(s) == k[s] = IF y \in s THEN g[s] + h[y] - f[y] ELSE g[s]
           Good == {s \in SUBSET S : Shifted(s)}
<1>0. \A s \in SUBSET S : g[s] \in Nat /\ k[s] \in Nat
  BY TotalType
<1>1. {} \in Good
  BY <1>a, <1>b
<1>2. ASSUME NEW s \in SUBSET S, s # {}, s \ {First(s)} \in Good PROVE s \in Good
  <2>2. g[s] = f[First(s)] + g[s \ {First(s)}] /\ k[s] = h[First(s)] + k[s \ {First(s)}]
    BY <1>2, <1>a, <1>b
  <2> DEFINE t == s \ {First(s)}
             c == First(s)
  <2>1. c \in s /\ c \in S /\ c \notin t /\ (y \in t <=> y \in s /\ y # c) /\ Shifted(t)
    BY <1>2, FirstIsIn
  <2>5. g[s] = f[c] + g[t] /\ k[s] = h[c] + k[t]
    BY <2>2
  <2>3. g[t] \in Nat /\ k[t] \in Nat /\ g[s] \in Nat /\ k[s] \in Nat
    BY <1>0
  <2>4. f[c] \in Nat /\ h[c] \in Nat /\ f[y] \in Nat /\ h[y] \in Nat /\ (c # y => h[c] = f[c])
    BY <2>1
  <2> HIDE DEF c, t
  <2>6. Shifted(s)
    BY <2>1, <2>3, <2>4, <2>5
  <2> QED
    BY <2>6
<1>3. \A s \in SUBSET S : s \in Good
  <2> HIDE DEF Good
  <2> QED
    BY <1>1, <1>2, PartByPart
<1> QED
  BY <1>3

\* What a child counts for is a number, nothing before its reservation, and at least
\* what it was promised.
LEMMA ExposureType ==
  ASSUME NEW row \in Row, NEW a \in Axis
  PROVE  /\ Exposure(row, a) \in Nat /\ Committed(row, a) \in Nat
         /\ Committed(row, a) <= Exposure(row, a)
<1> USE LedgerAssumption
<1>1. row.reservation # None => row.reservation[a] \in Nat
  BY DEF Row, Known
<1>2. row.settlement # None => row.settlement[a] \in Nat \union {Unknown}
  BY DEF Row, Amounts
<1>3. row.completion # None => row.completion.measured[a] \in Nat \union {Unknown}
  BY DEF Row, Completion, Amounts
<1> QED
  BY <1>1, <1>2, <1>3 DEF Exposure, Committed, larger

\* The usage and the promises on an axis are totals of what each child counts for there.
LEMMA UsageIsTotal ==
  ASSUME NEW children, NEW a \in Axis
  PROVE  \E g : IsTotal([ch \in Child |-> Exposure(children[ch], a)], Child, g) /\ _usage(children)[a] = g[Child]
<1> DEFINE f == [ch \in Child |-> Exposure(children[ch], a)]
           Folds(g) == g = [s \in SUBSET Child |->
                              IF s = {} THEN 0 ELSE Exposure(children[First(s)], a) + g[s \ {First(s)}]]
           g == CHOOSE g : Folds(g)
<1>1. _usage(children)[a] = g[Child]
  BY DEF _usage, MapThenSumSet, MapThenFoldSet, First
<1>2. \A s \in SUBSET Child : s # {} => f[First(s)] = Exposure(children[First(s)], a)
  BY FirstIsIn
<1>3. \A h : IsTotal(f, Child, h) <=> Folds(h)
  BY <1>2 DEF IsTotal, Solves
<1>4. \E h : IsTotal(f, Child, h)
  <2> HIDE DEF f
  <2> QED
    BY TotalExists, LedgerAssumption
<1>5. Folds(g)
  <2> HIDE DEF Folds
  <2> QED
    BY <1>3, <1>4
<1> QED
  BY <1>1, <1>3, <1>5

LEMMA PromisedIsTotal ==
  ASSUME NEW children, NEW a \in Axis
  PROVE  \E g : IsTotal([ch \in Child |-> Committed(children[ch], a)], Child, g) /\ Promised(children)[a] = g[Child]
<1> DEFINE f == [ch \in Child |-> Committed(children[ch], a)]
           Folds(g) == g = [s \in SUBSET Child |->
                              IF s = {} THEN 0 ELSE Committed(children[First(s)], a) + g[s \ {First(s)}]]
           g == CHOOSE g : Folds(g)
<1>1. Promised(children)[a] = g[Child]
  BY DEF Promised, MapThenSumSet, MapThenFoldSet, First
<1>2. \A s \in SUBSET Child : s # {} => f[First(s)] = Committed(children[First(s)], a)
  BY FirstIsIn
<1>3. \A h : IsTotal(f, Child, h) <=> Folds(h)
  BY <1>2 DEF IsTotal, Solves
<1>4. \E h : IsTotal(f, Child, h)
  <2> HIDE DEF f
  <2> QED
    BY TotalExists, LedgerAssumption
<1>5. Folds(g)
  <2> HIDE DEF Folds
  <2> QED
    BY <1>3, <1>4
<1> QED
  BY <1>1, <1>3, <1>5

\* Changing one row changes usage and promises by what that row's terms change by.
LEMMA UsageChange ==
  ASSUME NEW children \in [Child -> Row], NEW ch \in Child, NEW row \in Row, NEW a \in Axis,
         NEW new, new = [children EXCEPT ![ch] = row]
  PROVE  _usage(new)[a] = _usage(children)[a] + Exposure(row, a) - Exposure(children[ch], a)
<1> DEFINE f == [x \in Child |-> Exposure(children[x], a)]
           h == [x \in Child |-> Exposure(new[x], a)]
<1>1. \A x \in Child : f[x] \in Nat /\ h[x] \in Nat
  BY ExposureType
<1>2. \A x \in Child \ {ch} : h[x] = f[x]
  OBVIOUS
<1>3. h[ch] = Exposure(row, a) /\ f[ch] = Exposure(children[ch], a)
  OBVIOUS
<1>4. PICK g : IsTotal(f, Child, g) /\ _usage(children)[a] = g[Child]
  BY UsageIsTotal
<1>5. PICK k : IsTotal(h, Child, k) /\ _usage(new)[a] = k[Child]
  BY UsageIsTotal
<1> HIDE DEF f, h
<1>6. k[Child] = g[Child] + h[ch] - f[ch]
  BY <1>1, <1>2, <1>4, <1>5, TotalChange, LedgerAssumption
<1> QED
  BY <1>3, <1>4, <1>5, <1>6

LEMMA PromisedChange ==
  ASSUME NEW children \in [Child -> Row], NEW ch \in Child, NEW row \in Row, NEW a \in Axis,
         NEW new, new = [children EXCEPT ![ch] = row]
  PROVE  Promised(new)[a] = Promised(children)[a] + Committed(row, a) - Committed(children[ch], a)
<1> DEFINE f == [x \in Child |-> Committed(children[x], a)]
           h == [x \in Child |-> Committed(new[x], a)]
<1>1. \A x \in Child : f[x] \in Nat /\ h[x] \in Nat
  BY ExposureType
<1>2. \A x \in Child \ {ch} : h[x] = f[x]
  OBVIOUS
<1>3. h[ch] = Committed(row, a) /\ f[ch] = Committed(children[ch], a)
  OBVIOUS
<1>4. PICK g : IsTotal(f, Child, g) /\ Promised(children)[a] = g[Child]
  BY PromisedIsTotal
<1>5. PICK k : IsTotal(h, Child, k) /\ Promised(new)[a] = k[Child]
  BY PromisedIsTotal
<1> HIDE DEF f, h
<1>6. k[Child] = g[Child] + h[ch] - f[ch]
  BY <1>1, <1>2, <1>4, <1>5, TotalChange, LedgerAssumption
<1> QED
  BY <1>3, <1>4, <1>5, <1>6

\* No more is promised than is counted as used, and both are numbers.
LEMMA PromisedWithinUsage ==
  ASSUME NEW children \in [Child -> Row], NEW a \in Axis
  PROVE  /\ _usage(children)[a] \in Nat /\ Promised(children)[a] \in Nat
         /\ Promised(children)[a] <= _usage(children)[a]
<1> DEFINE f == [x \in Child |-> Committed(children[x], a)]
           h == [x \in Child |-> Exposure(children[x], a)]
<1>1. \A x \in Child : f[x] \in Nat /\ h[x] \in Nat /\ f[x] <= h[x]
  BY ExposureType
<1>2. PICK g : IsTotal(f, Child, g) /\ Promised(children)[a] = g[Child]
  BY PromisedIsTotal
<1>3. PICK k : IsTotal(h, Child, k) /\ _usage(children)[a] = k[Child]
  BY UsageIsTotal
<1> HIDE DEF f, h
<1>4. g[Child] \in Nat /\ k[Child] \in Nat
  BY <1>1, <1>2, <1>3, TotalType, LedgerAssumption
<1>5. g[Child] <= k[Child]
  BY <1>1, <1>2, <1>3, TotalMonotone, LedgerAssumption
<1> QED
  BY <1>2, <1>3, <1>4, <1>5

\* A ledger without events has used nothing.
LEMMA NothingUsed ==
  ASSUME NEW a \in Axis
  PROVE  _usage(Empty.children)[a] = 0 /\ Promised(Empty.children)[a] = 0
<1> DEFINE h == [x \in Child |-> Exposure(Empty.children[x], a)]
<1>1. \A x \in Child : h[x] = 0
  BY DEF Exposure, Empty, NoEvents
<1>2. PICK k : IsTotal(h, Child, k) /\ _usage(Empty.children)[a] = k[Child]
  BY UsageIsTotal
<1> HIDE DEF h
<1>3. k[Child] = 0
  BY <1>1, <1>2, TotalOfNothing, LedgerAssumption
<1>4. Empty.children \in [Child -> Row]
  BY EmptyVerifies DEF Body
<1> QED
  BY <1>2, <1>3, <1>4, PromisedWithinUsage

--------------------------------------------------------------------------------
(* The ledger and its budget                                                    *)

\* What one booked event does to a child: where it stood, where it stands, and what it
\* counts for on each axis.
Earns(children, old, row) ==
  \/ /\ Phase(old) = "free" /\ Phase(row) = "held"
     /\ row.reservation \in Request
     /\ \A a \in Axis : _usage(children)[a] + row.reservation[a] <= Limit[a]
     /\ \A a \in Axis : /\ Exposure(row, a) = row.reservation[a] /\ Exposure(old, a) = 0
                        /\ Committed(row, a) = row.reservation[a]
  \/ /\ Phase(old) = "held" /\ Phase(row) = "dispatched"
     /\ \A a \in Axis : Exposure(row, a) = Exposure(old, a) /\ Committed(row, a) = Committed(old, a)
  \/ /\ Phase(old) = "dispatched" /\ Phase(row) = "completed"
     /\ row.completion.measured \in Measurement
     /\ \A a \in Axis :
          LET m == row.completion.measured[a] IN
          /\ Exposure(row, a) = IF m = Unknown \/ m < Exposure(old, a) THEN Exposure(old, a) ELSE m
          /\ Committed(row, a) = Committed(old, a)
  \/ /\ Phase(old) = "completed" /\ Phase(row) = "settled"
     /\ \/ \A a \in Axis : Exposure(row, a) = Exposure(old, a)
        \/ /\ old.completion.measured \in Measurement
           /\ \A a \in Axis :
                LET m == old.completion.measured[a] IN
                /\ m = Unknown \/ m <= Exposure(old, a)
                /\ Exposure(row, a) = IF m = Unknown THEN Exposure(old, a) ELSE m
     /\ \A a \in Axis : Committed(row, a) <= Committed(old, a)

LEMMA BookedEarns ==
  ASSUME NEW children \in [Child -> Row], NEW ch \in Child, NEW row \in Row,
         OrderedRow(children[ch]), OrderedRow(row), Booked(children, ch, row)
  PROVE  Earns(children, children[ch], row)
<1> DEFINE old == children[ch]
<1> USE LedgerAssumption
<1>0. old \in Row
  OBVIOUS
<1>t. \A r \in Row, a \in Axis :
        /\ r.reservation # None => r.reservation[a] \in Nat
        /\ r.completion # None => r.completion.measured[a] \in Nat \union {Unknown}
        /\ r.settlement # None => r.settlement[a] \in Nat \union {Unknown}
  BY DEF Row, Known, Completion, Amounts
<1>1. ASSUME old = NoEvents,
             NEW attempt \in Attempt, NEW request \in Request,
             row = [NoEvents EXCEPT !.attempt = attempt, !.reservation = request],
             \A a \in Axis : _usage(children)[a] + request[a] <= Limit[a]
      PROVE  Earns(children, old, row)
  <2>1. /\ row.reservation = request /\ request # None
        /\ row.dispatch = None /\ row.completion = None /\ row.settlement = None
    BY <1>1 DEF NoEvents
  <2>2. old.reservation = None /\ old.dispatch = None /\ old.completion = None /\ old.settlement = None
    BY <1>1 DEF NoEvents
  <2> HIDE DEF old
  <2>3. Phase(old) = "free" /\ Phase(row) = "held"
    BY <2>1, <2>2 DEF Phase
  <2>4. \A a \in Axis : Exposure(row, a) = row.reservation[a] /\ Exposure(old, a) = 0 /\ Committed(row, a) = row.reservation[a]
    BY <2>1, <2>2 DEF Exposure, Committed
  <2> QED
    BY <1>1, <2>1, <2>3, <2>4 DEF Earns
<1>2. ASSUME old.reservation # None, old.dispatch = None,
             row = [old EXCEPT !.dispatch = "INTENT_RECORDED"]
      PROVE  Earns(children, old, row)
  <2>1. /\ row.reservation = old.reservation /\ row.dispatch # None
        /\ row.completion = old.completion /\ row.settlement = old.settlement
    BY <1>0, <1>2 DEF Row
  <2>2. old.completion = None /\ old.settlement = None
    BY <1>2 DEF OrderedRow
  <2> HIDE DEF old
  <2>3. Phase(old) = "held" /\ Phase(row) = "dispatched"
    BY <1>2, <2>1, <2>2 DEF Phase
  <2>4. \A a \in Axis : Exposure(row, a) = Exposure(old, a) /\ Committed(row, a) = Committed(old, a)
    BY <2>1, <2>2 DEF Exposure, Committed
  <2> QED
    BY <2>3, <2>4 DEF Earns
<1>3. ASSUME old.dispatch # None, old.completion = None,
             NEW performed \in Service, NEW measured \in Measurement,
             row = [old EXCEPT !.completion = [performed |-> performed, measured |-> measured]]
      PROVE  Earns(children, old, row)
  <2>1. /\ row.reservation = old.reservation /\ row.dispatch = old.dispatch
        /\ row.completion = [performed |-> performed, measured |-> measured] /\ row.settlement = old.settlement
    BY <1>0, <1>3 DEF Row
  <2>2. old.settlement = None /\ old.reservation # None
    BY <1>3 DEF OrderedRow, NoEvents
  <2>3. row.completion.measured = measured /\ row.completion # None
    <3>1. [performed |-> performed, measured |-> measured] \in Completion
      BY DEF Completion
    <3> QED
      BY <2>1, <3>1
  <2>4. \A a \in Axis : old.reservation[a] \in Nat /\ measured[a] \in Nat \union {Unknown}
    BY <1>0, <1>t, <2>2, <2>3
  <2> HIDE DEF old
  <2>5. Phase(old) = "dispatched" /\ Phase(row) = "completed"
    BY <1>3, <2>1, <2>2, <2>3 DEF Phase
  <2>6. \A a \in Axis : /\ Exposure(old, a) = old.reservation[a]
                        /\ Exposure(row, a) = IF measured[a] = Unknown THEN old.reservation[a]
                                              ELSE larger(old.reservation[a], measured[a])
                        /\ Committed(row, a) = Committed(old, a)
    BY <1>3, <2>1, <2>2, <2>3 DEF Exposure, Committed
  <2>7. \A a \in Axis :
          Exposure(row, a) = IF measured[a] = Unknown \/ measured[a] < Exposure(old, a)
                               THEN Exposure(old, a) ELSE measured[a]
    BY <2>4, <2>6 DEF larger
  <2> QED
    BY <2>3, <2>5, <2>6, <2>7 DEF Earns
<1>4. ASSUME old.completion # None, old.settlement = None,
             old.completion.measured \in Measurement,
             row = [old EXCEPT !.settlement = Settled(old.completion)]
      PROVE  Earns(children, old, row)
  <2>1. /\ row.reservation = old.reservation /\ row.completion = old.completion
        /\ row.settlement = Settled(old.completion)
    BY <1>0, <1>4 DEF Row
  <2>2. old.dispatch # None /\ old.reservation # None
    BY <1>4 DEF OrderedRow, NoEvents
  <2>3. row.settlement # None
    <3>1. Settled(old.completion) \in Amounts
      BY <1>0, <1>4 DEF Settled, Row, Completion, Amounts
    <3> QED
      BY <2>1, <3>1
  <2>4. \A a \in Axis : /\ old.reservation[a] \in Nat
                        /\ old.completion.measured[a] \in Nat \union {Unknown}
    BY <1>0, <1>4, <1>t, <2>2
  <2> HIDE DEF old
  <2>5. Phase(old) = "completed" /\ Phase(row) = "settled"
    BY <1>4, <2>3 DEF Phase
  <2>6. \A a \in Axis :
          LET m == old.completion.measured[a]
              held == IF m = Unknown THEN old.reservation[a] ELSE larger(old.reservation[a], m)
              told == IF old.completion.performed = "UNKNOWN" THEN Unknown ELSE m
          IN  /\ Exposure(old, a) = held /\ Committed(old, a) = old.reservation[a]
              /\ Exposure(row, a) = IF told = Unknown THEN held ELSE told
              /\ Committed(row, a) = IF told # Unknown /\ told < old.reservation[a] THEN told ELSE old.reservation[a]
    BY <1>4, <2>1, <2>2, <2>3 DEF Exposure, Committed, Settled
  <2>7. \A a \in Axis : Committed(row, a) <= Committed(old, a)
    BY <2>4, <2>6
  <2>8. CASE old.completion.performed = "UNKNOWN"
    <3>1. \A a \in Axis : Exposure(row, a) = Exposure(old, a)
      BY <2>6, <2>8
    <3> QED
      BY <2>5, <2>7, <3>1 DEF Earns
  <2>9. CASE old.completion.performed # "UNKNOWN"
    <3>1. \A a \in Axis :
            LET m == old.completion.measured[a] IN
            /\ m = Unknown \/ m <= Exposure(old, a)
            /\ Exposure(row, a) = IF m = Unknown THEN Exposure(old, a) ELSE m
      BY <2>4, <2>6, <2>9 DEF larger
    <3> QED
      BY <1>4, <2>5, <2>7, <3>1 DEF Earns
  <2> QED
    BY <2>8, <2>9
<1> HIDE DEF old
<1>5. \/ /\ old = NoEvents
         /\ \E attempt \in Attempt, request \in Request :
              /\ row = [NoEvents EXCEPT !.attempt = attempt, !.reservation = request]
              /\ \A a \in Axis : _usage(children)[a] + request[a] <= Limit[a]
      \/ /\ old.reservation # None /\ old.dispatch = None
         /\ row = [old EXCEPT !.dispatch = "INTENT_RECORDED"]
      \/ /\ old.dispatch # None /\ old.completion = None
         /\ \E performed \in Service, measured \in Measurement :
              row = [old EXCEPT !.completion = [performed |-> performed, measured |-> measured]]
      \/ /\ old.completion # None /\ old.settlement = None
         /\ old.completion.measured \in Measurement
         /\ row = [old EXCEPT !.settlement = Settled(old.completion)]
  BY DEF Booked, old
<1>6. Earns(children, old, row)
  BY <1>1, <1>2, <1>3, <1>4, <1>5
<1> QED
  BY <1>6 DEF old

\* What a step does to the rows: one event is booked, or nothing changes.
LEMMA StepBooks ==
  ASSUME IInv, NEW c \in Caller, Step(c)
  PROVE  /\ Rows \in [Child -> Row]
         /\ \/ Rows' = Rows
            \/ /\ goAheads' = goAheads
               /\ \E ch \in Child, row \in Row :
                    Rows' = [Rows EXCEPT ![ch] = row] /\ Earns(Rows, Rows[ch], row)
<1>1. Rows \in [Child -> Row]
  BY EmptyVerifies DEF IInv, TypeOK, Rows, Body
<1>2. CASE Replace(c)
  <2>1. /\ state \in Body /\ Rows = state.children /\ Rows' = draft[c].children
        /\ verify_report(draft[c]) /\ BookedOn(draft[c], state)
    BY <1>2, StepRows
  <2>2. PICK ch \in Child, row \in Row :
          draft[c].children = [state.children EXCEPT ![ch] = row] /\ Booked(state.children, ch, row)
    BY <2>1 DEF BookedOn
  <2>3. Rows' = [Rows EXCEPT ![ch] = row] /\ Booked(Rows, ch, row) /\ Rows'[ch] = row
    BY <1>1, <2>1, <2>2
  <2>4. verify_report(state)
    BY <2>1, NoBody DEF IInv, StateVerifies
  <2>5. OrderedRow(Rows[ch]) /\ OrderedRow(row)
    BY <2>1, <2>2, <2>3, <2>4 DEF verify_report
  <2>6. Earns(Rows, Rows[ch], row)
    BY <1>1, <2>3, <2>5, BookedEarns
  <2>7. goAheads' = goAheads
    BY <1>2 DEF Replace
  <2> QED
    BY <1>1, <2>3, <2>6, <2>7
<1>3. CASE ~Replace(c)
  BY <1>1, <1>3, StepRows
<1> QED
  BY <1>2, <1>3

\* The invariant and what it means for the budget: the promises to all children are
\* within it.
LEMMA PromisesKept == IInv /\ NeverOversold /\ [Next]_vars => NeverOversold'
<1> SUFFICES ASSUME IInv, NeverOversold, [Next]_vars PROVE NeverOversold'
  OBVIOUS
<1>0. \A a \in Axis : Promised(Rows)[a] <= Limit[a]
  BY DEF NeverOversold
<1> SUFFICES ASSUME NEW a \in Axis PROVE Promised(Rows')[a] <= Limit[a]
  BY DEF NeverOversold
<1>1. CASE Next
  <2>1. PICK c \in Caller : Step(c)
    BY <1>1, NextSteps DEF IInv
  <2>2. Rows \in [Child -> Row]
    BY <2>1, StepBooks
  <2>3. CASE Rows' = Rows
    BY <1>0, <2>3
  <2>4. ASSUME NEW ch \in Child, NEW row \in Row,
               Rows' = [Rows EXCEPT ![ch] = row], Earns(Rows, Rows[ch], row)
        PROVE  Promised(Rows')[a] <= Limit[a]
    <3>1. Promised(Rows')[a] = Promised(Rows)[a] + Committed(row, a) - Committed(Rows[ch], a)
      BY <2>2, <2>4, PromisedChange
    <3>2. /\ Promised(Rows)[a] \in Nat /\ _usage(Rows)[a] \in Nat /\ Limit[a] \in Nat
          /\ Promised(Rows)[a] <= _usage(Rows)[a] /\ Promised(Rows)[a] <= Limit[a]
      BY <1>0, <2>2, PromisedWithinUsage, LedgerAssumption DEF Known
    <3>3. Committed(row, a) \in Nat /\ Committed(Rows[ch], a) \in Nat
      BY <2>2, ExposureType
    <3>4. Committed(row, a) <= Committed(Rows[ch], a) \/ _usage(Rows)[a] + Committed(row, a) <= Limit[a]
      <4>1. Committed(Rows[ch], a) <= Committed(Rows[ch], a)
        BY <3>3
      <4> QED
        BY <2>4, <4>1 DEF Earns
    <3> QED
      BY <3>1, <3>2, <3>3, <3>4
  <2> QED
    BY <2>1, <2>3, <2>4, StepBooks
<1>2. CASE UNCHANGED vars
  BY <1>0, <1>2 DEF vars, files, Rows
<1> QED
  BY <1>1, <1>2

--------------------------------------------------------------------------------
(* Theorems                                                                     *)

\* The state has its types, whatever callers do and wherever they stop.
THEOREM TypeCorrect == Spec => []TypeOK
<1>1. IInv => TypeOK
  BY DEF IInv
<1> QED
  BY <1>1, Invariance, PTL

\* Every state that `_change' and `create' publish passes verify_report: events in
\* order, attempts that differ, as many events as revisions.
THEOREM StateVerified == Spec => []StateVerifies
<1>1. IInv => StateVerifies
  BY DEF IInv
<1> QED
  BY <1>1, Invariance, PTL

\* dispatch_record returns at most once per child, and only with the dispatch on
\* record, for any number of racing, stopping and retrying callers.
THEOREM SingleGoAhead == Spec => []OneGoAhead
<1>1. IInv => OneGoAhead
  BY DEF IInv
<1> QED
  BY <1>1, Invariance, PTL

\* After an interrupted publication the ledger is closed for good: `locked' refuses
\* every caller, so nothing changes state.json or removes pending.json.
THEOREM QuarantineFinal == Spec => QuarantineIsFinal
<1>1. IInv /\ [Next]_vars => [pending # None /\ holder = None => UNCHANGED <<state, pending>>]_vars
  <2> SUFFICES ASSUME IInv, Next, pending # None, holder = None
               PROVE  UNCHANGED <<state, pending>>
    OBVIOUS
  <2>1. PICK c \in Caller : Step(c)
    BY NextSteps DEF IInv
  <2>2. pc[c] \notin Locked
    BY LedgerAssumption DEF IInv, LockHeld
  <2>3. pc[c] \notin Creating
    BY NoBody DEF IInv, Creation
  <2> QED
    BY <2>1, <2>2, <2>3 DEF Step, Locked, Creating, files, Goto, Call, Mkdir, CreateLock, Ends, Enter, Drafts,
         CreatePending, FillPending, Replace, Return, CreateState, FillState
<1> QED
  BY <1>1, Invariance, PTL DEF Spec, QuarantineIsFinal

\* No event on record is taken back or rewritten: what replaces state.json extends it,
\* although a draft is made from what was read before the publication.
THEOREM EventsFinal == Spec => EventsAreFinal
<1> DEFINE Keeps == \A ch \in Child, kind \in Kind :
             event(Rows[ch], kind) # None => event(Rows'[ch], kind) = event(Rows[ch], kind)
<1>1. IInv /\ [Next]_vars => [Keeps]_vars
  <2> SUFFICES ASSUME IInv, Next PROVE Keeps
    OBVIOUS
  <2>1. PICK c \in Caller : Step(c)
    BY NextSteps DEF IInv
  <2>2. CASE Replace(c)
    BY <2>1, <2>2, StepRows DEF Extends
  <2>3. CASE ~Replace(c)
    BY <2>1, <2>3, StepRows
  <2> QED
    BY <2>2, <2>3
<1> QED
  BY <1>1, Invariance, PTL DEF Spec, EventsAreFinal
\* What is promised to all children together stays within the budget on every axis,
\* whoever races, stops or retries, and also after a settlement gave something back that
\* was handed out again (reserve checks the usage recomputed from the events).
THEOREM ReservationsWithinBudget == Spec => []NeverOversold
<1>1. Init => NeverOversold
  <2> SUFFICES ASSUME Init, NEW a \in Axis PROVE Promised(Rows)[a] <= Limit[a]
    BY DEF NeverOversold
  <2>1. Rows = Empty.children
    BY DEF Init, Rows
  <2> QED
    BY <2>1, NothingUsed, LedgerAssumption DEF Known
<1>2. IInv /\ NeverOversold /\ [Next]_vars => NeverOversold'
  BY PromisesKept
<1> QED
  BY <1>1, <1>2, Invariance, PTL DEF Spec

\* The ledger is the budget: `_usage', recomputed from every event on record, is the total
\* that adding and subtracting at each operation would give; a published event is one
\* operation of the budget, a dispatch_record that returns is a go-ahead, and every other
\* step of every caller is invisible.
THEOREM ImplementsBudget == Spec => BudgetSpec
<1>1. Init => Budget!Init
  <2> SUFFICES ASSUME Init PROVE Budget!Init
    OBVIOUS
  <2>1. Rows = [ch \in Child |-> NoEvents] /\ Rows = Empty.children
    BY DEF Init, Rows, Empty
  <2>2. \A ch \in Child : Phase(Rows[ch]) = "free" /\ \A a \in Axis : Exposure(Rows[ch], a) = 0
    BY <2>1 DEF Phase, Exposure, NoEvents
  <2>3. _usage(Rows) = [a \in Axis |-> 0]
    <3>1. \A a \in Axis : _usage(Rows)[a] = 0
      BY <2>1, NothingUsed
    <3>2. _usage(Rows) = [a \in Axis |-> _usage(Rows)[a]]
      BY DEF _usage
    <3> QED
      BY <3>1, <3>2
  <2> QED
    BY <2>2, <2>3 DEF Init, Budget!Init
<1>2. IInv /\ [Next]_vars => [Budget!Next]_(Budget!vars)
  <2> SUFFICES ASSUME IInv, [Next]_vars PROVE [Budget!Next]_(Budget!vars)
    OBVIOUS
  <2> DEFINE phase == [ch \in Child |-> Phase(Rows[ch])]
             hold == [ch \in Child |-> [a \in Axis |-> Exposure(Rows[ch], a)]]
  <2>1. ASSUME Rows' = Rows, goAheads' = goAheads PROVE UNCHANGED Budget!vars
    BY <2>1 DEF Budget!vars
  <2>2. ASSUME NEW c \in Caller, Step(c), Rows' = Rows PROVE [Budget!Next]_(Budget!vars)
    <3>1. CASE goAheads' = goAheads
      BY <2>1, <2>2, <3>1
    <3>2. CASE goAheads' # goAheads
      <4>1. Return(c) /\ starting[c] # None
        <5>1. Return(c)
          BY <2>2, <3>2 DEF Step, Call, Mkdir, CreateLock, CreateState, FillState, Ends, Enter, Drafts,
               CreatePending, FillPending, Replace
        <5>2. ASSUME starting[c] = None PROVE goAheads' = goAheads
          <6>1. \A ch \in Child : starting[c] # ch
            BY <5>2, LedgerAssumption
          <6> QED
            BY <5>1, <6>1 DEF Return, IInv, TypeOK
        <5> QED
          BY <3>2, <5>1, <5>2
      <4> DEFINE ch == starting[c]
      <4>2. ch \in Child /\ pc[c] = "sync" /\ state \in Body
        BY <4>1 DEF Return, IInv, TypeOK, Creation
      <4>3. state.children[ch].dispatch # None /\ goAheads[ch] = 0
        BY <4>1, <4>2 DEF IInv, Unconfirmed
      <4>4. ch = starting[c]
        OBVIOUS
      <4> HIDE DEF ch
      <4>5. goAheads' = [goAheads EXCEPT ![ch] = 1]
        <5>1. goAheads' = [x \in Child |-> IF ch = x THEN goAheads[x] + 1 ELSE goAheads[x]]
          BY <4>1, <4>4 DEF Return
        <5>2. goAheads \in [Child -> Nat]
          BY DEF IInv, TypeOK
        <5>3. \A x \in Child : goAheads'[x] = IF x = ch THEN 1 ELSE goAheads[x]
          BY <4>2, <4>3, <5>1
        <5>4. goAheads' = [x \in Child |-> IF x = ch THEN 1 ELSE goAheads[x]]
          BY <5>1, <5>3
        <5> QED
          BY <5>2, <5>4
      <4>6. Phase(Rows[ch]) \notin {"free", "held"}
        BY <4>2, <4>3, NoBody DEF Rows, Phase
      <4>7. Budget!Confirm(ch)
        BY <2>2, <4>2, <4>3, <4>5, <4>6 DEF Budget!Confirm
      <4> QED
        BY <4>2, <4>7 DEF Budget!Next
    <3> QED
      BY <3>1, <3>2
  <2>3. ASSUME Rows \in [Child -> Row], goAheads' = goAheads, NEW ch \in Child, NEW row \in Row,
               Rows' = [Rows EXCEPT ![ch] = row], Earns(Rows, Rows[ch], row)
        PROVE  Budget!Next
    <3> DEFINE held == [a \in Axis |-> Exposure(row, a)]
    <3>1. /\ phase' = [phase EXCEPT ![ch] = Phase(row)]
          /\ hold' = [hold EXCEPT ![ch] = held]
      BY <2>3
    <3>2. _usage(Rows') = [a \in Axis |-> _usage(Rows)[a] + held[a] - hold[ch][a]]
      <4>1. \A a \in Axis : _usage(Rows')[a] = _usage(Rows)[a] + Exposure(row, a) - Exposure(Rows[ch], a)
        BY <2>3, UsageChange
      <4>2. _usage(Rows') = [a \in Axis |-> _usage(Rows')[a]]
        BY DEF _usage
      <4> QED
        BY <4>1, <4>2
    <3>3. ASSUME NEW from, NEW to, NEW h, Phase(Rows[ch]) = from, Phase(row) = to, h = held
          PROVE  Budget!Advance(ch, from, to, h)
      BY <2>3, <3>1, <3>2, <3>3 DEF Budget!Advance
    <3>4. CASE /\ Phase(Rows[ch]) = "free" /\ Phase(row) = "held"
               /\ row.reservation \in Request
               /\ \A a \in Axis : _usage(Rows)[a] + row.reservation[a] <= Limit[a]
               /\ \A a \in Axis : Exposure(row, a) = row.reservation[a]
      <4>1. row.reservation = held
        BY <3>4, LedgerAssumption DEF Known
      <4>2. Budget!Reserve(ch)
        BY <3>3, <3>4, <4>1 DEF Budget!Reserve
      <4> QED
        BY <4>2 DEF Budget!Next
    <3>5. CASE /\ Phase(Rows[ch]) = "held" /\ Phase(row) = "dispatched"
               /\ \A a \in Axis : Exposure(row, a) = Exposure(Rows[ch], a)
      <4>1. hold[ch] = held
        BY <3>5
      <4>2. Budget!Dispatch(ch)
        BY <3>3, <3>5, <4>1 DEF Budget!Dispatch
      <4> QED
        BY <4>2 DEF Budget!Next
    <3>6. CASE /\ Phase(Rows[ch]) = "dispatched" /\ Phase(row) = "completed"
               /\ row.completion.measured \in Measurement
               /\ \A a \in Axis :
                    LET m == row.completion.measured[a] IN
                    Exposure(row, a) = IF m = Unknown \/ m < Exposure(Rows[ch], a) THEN Exposure(Rows[ch], a) ELSE m
      <4>1. Budget!Charged(hold[ch], row.completion.measured) = held
        BY <3>6 DEF Budget!Charged
      <4>2. Budget!Complete(ch)
        BY <3>3, <3>6, <4>1 DEF Budget!Complete
      <4> QED
        BY <4>2 DEF Budget!Next
    <3>7. CASE /\ Phase(Rows[ch]) = "completed" /\ Phase(row) = "settled"
               /\ \A a \in Axis : Exposure(row, a) = Exposure(Rows[ch], a)
      <4>1. hold[ch] = held
        BY <3>7
      <4>2. Budget!Settle(ch)
        BY <3>3, <3>7, <4>1 DEF Budget!Settle
      <4> QED
        BY <4>2 DEF Budget!Next
    <3>8. CASE /\ Phase(Rows[ch]) = "completed" /\ Phase(row) = "settled"
               /\ Rows[ch].completion.measured \in Measurement
               /\ \A a \in Axis :
                    LET m == Rows[ch].completion.measured[a] IN
                    /\ m = Unknown \/ m <= Exposure(Rows[ch], a)
                    /\ Exposure(row, a) = IF m = Unknown THEN Exposure(Rows[ch], a) ELSE m
      <4> DEFINE m == Rows[ch].completion.measured
                 h == [a \in Axis |-> IF m[a] = Unknown THEN hold[ch][a] ELSE m[a]]
      <4>1. m \in Measurement /\ h = held /\ \A a \in Axis : m[a] = Unknown \/ m[a] <= hold[ch][a]
        BY <3>8
      <4>2. Budget!Advance(ch, "completed", "settled", h)
        BY <3>3, <3>8, <4>1
      <4>3. Budget!Settle(ch)
        BY <4>1, <4>2 DEF Budget!Settle
      <4> QED
        BY <4>3 DEF Budget!Next
    <3> QED
      BY <2>3, <3>4, <3>5, <3>6, <3>7, <3>8 DEF Earns
  <2>4. CASE Next
    <3>1. PICK c \in Caller : Step(c)
      BY <2>4, NextSteps DEF IInv
    <3> QED
      BY <2>2, <2>3, <3>1, StepBooks
  <2>5. CASE UNCHANGED vars
    <3>1. Rows' = Rows /\ goAheads' = goAheads
      BY <2>5 DEF vars, files, Rows
    <3> QED
      BY <2>1, <3>1
  <2> QED
    BY <2>4, <2>5
<1> QED
  BY <1>1, <1>2, Invariance, PTL DEF Spec, BudgetSpec, Budget!Spec
================================================================================
