--------------------------- MODULE DispatchProofs ---------------------------
(***************************************************************************)
(* Theorems about Dispatch for every choice of its constants: any number   *)
(* of requests, providers and handlers in flight; and about the worlds of  *)
(* MCDispatchSerial, where a handler runs alone.                           *)
(***************************************************************************)
EXTENDS MCDispatchSerial, FiniteSetTheorems, TLAPS

-----------------------------------------------------------------------------
(***************************************************************************)
(* Lemmas about documents and about the one slot that a step changes.      *)
(***************************************************************************)

\* The documents that handlers start from have their types.
LEMMA DocConstantsType ==
  /\ AbsentRequest \in RequestDoc
  /\ NewRequest \in RequestDoc
  /\ OnboardedProvider \in ProviderDoc
  /\ ReadyProvider \in ProviderDoc
  /\ Idle \in HandlerState
BY DEF AbsentRequest, NewRequest, OnboardedProvider, ReadyProvider, Idle,
       RequestDoc, ProviderDoc, HandlerState, PC, HandlerOp, BreakdownStatus,
       AvailabilityStatus, OnlineStatus, KycStatus

\* A save of well-typed documents stores a well-typed one.
LEMMA SavedRequestType ==
  ASSUME NEW stored \in RequestDoc, NEW loaded \in RequestDoc,
         NEW edited \in RequestDoc
  PROVE  SavedRequest(stored, loaded, edited) \in RequestDoc
BY DEF SavedRequest, Written, RequestDoc

LEMMA SavedProviderType ==
  ASSUME NEW stored \in ProviderDoc, NEW loaded \in ProviderDoc,
         NEW edited \in ProviderDoc
  PROVE  SavedProvider(stored, loaded, edited) \in ProviderDoc
BY DEF SavedProvider, Written, ProviderDoc

LEMMA JobDoneType ==
  ASSUME NEW doc \in ProviderDoc
  PROVE  JobDone(doc) \in ProviderDoc
<1> DEFINE n == doc.totalCompletedRequests + 1
<1>1. n \in Nat
  BY DEF ProviderDoc
<1>2. JobDone(doc) = [doc EXCEPT !.totalCompletedRequests = n,
                                 !.availabilityStatus = "AVAILABLE"]
  BY DEF JobDone, ProviderDoc
<1> HIDE DEF n
<1> QED
  BY <1>1, <1>2 DEF ProviderDoc, AvailabilityStatus

\* A handler's step replaces its own slot and no other.
LEMMA GoesSlot ==
  ASSUME handler \in [Handler -> HandlerState],
         NEW h \in Handler, NEW local \in HandlerState, Goes(h, local)
  PROVE  /\ handler' \in [Handler -> HandlerState]
         /\ handler'[h] = local
         /\ \A g \in Handler : g # h => handler'[g] = handler[g]
BY DEF Goes

LEMMA StoreRequestType ==
  ASSUME TypeOK, NEW h \in Handler, StoreRequest(h)
  PROVE  requests' \in [Request -> RequestDoc]
<1>1. handler[h] \in HandlerState
  BY DEF TypeOK
<1>2. handler[h].rload \in RequestDoc /\ handler[h].rdoc \in RequestDoc
  BY <1>1 DEF HandlerState
<1>3. \A r \in Request : requests[r] \in RequestDoc
  BY DEF TypeOK
<1>4. \A r \in Request :
        SavedRequest(requests[r], handler[h].rload, handler[h].rdoc) \in RequestDoc
  BY <1>2, <1>3, SavedRequestType
<1> QED
  BY <1>4 DEF StoreRequest, TypeOK

LEMMA StoreProviderType ==
  ASSUME TypeOK, NEW h \in Handler, StoreProvider(h)
  PROVE  providers' \in [Provider -> ProviderDoc]
<1>1. handler[h] \in HandlerState
  BY DEF TypeOK
<1>2. handler[h].pload \in ProviderDoc /\ handler[h].pdoc \in ProviderDoc
  BY <1>1 DEF HandlerState
<1>3. \A p \in Provider : providers[p] \in ProviderDoc
  BY DEF TypeOK
<1>4. \A p \in Provider :
        SavedProvider(providers[p], handler[h].pload, handler[h].pdoc) \in ProviderDoc
  BY <1>2, <1>3, SavedProviderType
<1> QED
  BY <1>4 DEF StoreProvider, TypeOK

\* assignProviderToRequest gives a handler state: either both saves are
\* pending, or the handler has ended.
LEMMA AssignType ==
  ASSUME NEW me \in HandlerState, NEW p \in Provider, NEW doc \in ProviderDoc
  PROVE  /\ assignProviderToRequest(me, p, doc) \in HandlerState
         /\ assignProviderToRequest(me, p, doc).pc \in { "idle", "assignSaveBoth" }
<1>1. CASE mayBeAssigned(doc)
  BY <1>1 DEF assignProviderToRequest, HandlerState, RequestDoc, ProviderDoc, PC,
     BreakdownStatus, AvailabilityStatus
<1>2. CASE ~ mayBeAssigned(doc)
  BY <1>2, DocConstantsType DEF assignProviderToRequest, Idle
<1> QED
  BY <1>1, <1>2

LEMMA CancellingType ==
  ASSUME NEW me \in HandlerState
  PROVE  /\ Cancelling(me) \in HandlerState
         /\ Cancelling(me).pc = "saveRequest"
BY DEF Cancelling, HandlerState, RequestDoc, PC, BreakdownStatus

-----------------------------------------------------------------------------
(***************************************************************************)
(* Type correctness.  TypeOK is not inductive by itself: a completion reads*)
(* the provider that the request names, so its handler must hold a request *)
(* that names one.                                                         *)
(***************************************************************************)
NamesProvider(local) ==
  /\ local.pc \in { "loadProvider", "saveProvider" } => local.prov \in Provider
  /\ local.pc \in { "completeLoad", "releaseLoad" } =>
       local.rdoc.assignedProviderId \in Provider
  /\ local.pc \in { "releaseLoad", "releaseSave" } /\ local.op = "assign" =>
       local.prov \in Provider

TypeInv == TypeOK /\ \A h \in Handler : NamesProvider(handler[h])

\* What the new content of the slot must satisfy for TypeInv to survive.
SlotOK(local) == local \in HandlerState /\ NamesProvider(local)

LEMMA SlotStep ==
  ASSUME TypeInv, NEW h \in Handler, NEW local, SlotOK(local), Goes(h, local)
  PROVE  handler' \in [Handler -> HandlerState] /\ \A g \in Handler : NamesProvider(handler'[g])
<1>1. local \in HandlerState
  BY DEF SlotOK
<1>2. /\ handler' \in [Handler -> HandlerState]
      /\ handler'[h] = local
      /\ \A g \in Handler : g # h => handler'[g] = handler[g]
  BY <1>1, GoesSlot DEF TypeInv, TypeOK
<1> QED
  BY <1>2 DEF SlotOK, TypeInv

\* The two steps that all handlers share: to end, and to hold what a slot in
\* the invariant held at a program counter that loads nothing.
LEMMA IdleSlot == SlotOK(Idle)
BY DocConstantsType DEF SlotOK, NamesProvider, Idle

LEMMA AssignSlot ==
  ASSUME NEW me \in HandlerState, NEW p \in Provider, NEW doc \in ProviderDoc
  PROVE  SlotOK(assignProviderToRequest(me, p, doc))
BY AssignType DEF SlotOK, NamesProvider

LEMMA CancellingSlot ==
  ASSUME NEW me \in HandlerState
  PROVE  SlotOK(Cancelling(me))
BY CancellingType DEF SlotOK, NamesProvider

LEMMA AfterReleaseSlot ==
  ASSUME NEW me \in HandlerState,
         me.op = "assign" => me.prov \in Provider
  PROVE  SlotOK(AfterRelease(me))
<1>1. me.pload \in ProviderDoc
  BY DEF HandlerState
<1> QED
  BY <1>1, AssignSlot, CancellingSlot DEF AfterRelease

LEMMA InitTypeInv == Init => TypeInv
<1> SUFFICES ASSUME Init PROVE TypeInv
  OBVIOUS
<1>1. TypeOK
  BY DocConstantsType, DispatchAssumption DEF Init, TypeOK
<1>2. \A h \in Handler : NamesProvider(handler[h])
  BY DEF Init, NamesProvider, Idle
<1> QED
  BY <1>1, <1>2 DEF TypeInv

\* What TypeInv says of one slot and of the documents it may load.
LEMMA SlotFacts ==
  ASSUME TypeInv, NEW h \in Handler
  PROVE  /\ SlotOK(handler[h])
         /\ handler[h] \in HandlerState
         /\ handler[h].rload \in RequestDoc /\ handler[h].rdoc \in RequestDoc
         /\ handler[h].pload \in ProviderDoc /\ handler[h].pdoc \in ProviderDoc
         /\ \A r \in Request : requests[r] \in RequestDoc
         /\ \A p \in Provider : providers[p] \in ProviderDoc
BY DEF TypeInv, TypeOK, SlotOK, HandlerState

LEMMA AcceptTypeInv ==
  ASSUME TypeInv, NEW h \in Handler, Accept(h)
  PROVE  TypeInv'
<1>1. /\ \A r \in Request : requests[r] \in RequestDoc
      /\ \A p \in Provider : providers[p] \in ProviderDoc
  BY SlotFacts
<1>2. ASSUME NEW r \in Request, CreateInsert(h, r) PROVE TypeInv'
  <2> DEFINE searching == [NewRequest EXCEPT !.status = "SEARCHING_PROVIDER"]
             local == [Idle EXCEPT !.pc = "saveSearching", !.op = "create",
                                   !.req = r, !.rload = NewRequest,
                                   !.rdoc = searching]
  <2>1. SlotOK(local)
    <3>1. searching \in RequestDoc
      BY DocConstantsType DEF RequestDoc, BreakdownStatus
    <3> HIDE DEF searching
    <3> QED
      BY <3>1, DocConstantsType DEF SlotOK, NamesProvider, HandlerState, PC, HandlerOp
  <2>2. Goes(h, local)
    BY <1>2 DEF CreateInsert
  <2>3. handler' \in [Handler -> HandlerState] /\ \A g \in Handler : NamesProvider(handler'[g])
    BY <2>1, <2>2, SlotStep
  <2>4. requests' \in [Request -> RequestDoc]
    BY <1>2, DocConstantsType DEF CreateInsert, TypeInv, TypeOK
  <2> QED
    BY <1>2, <2>3, <2>4 DEF CreateInsert, TypeInv, TypeOK
<1>3. ASSUME NEW r \in Request, CancelLoad(h, r) PROVE TypeInv'
  <2> DEFINE me == [Idle EXCEPT !.pc = "releaseLoad", !.op = "cancel",
                                !.req = r, !.rload = requests[r],
                                !.rdoc = requests[r]]
             local == IF requests[r].assignedProviderId = NoProvider
                        THEN Cancelling(me) ELSE me
  <2>1. me \in HandlerState
    BY <1>1, DocConstantsType DEF HandlerState, PC, HandlerOp
  <2>2. me.op = "cancel" /\ me.rdoc = requests[r]
    BY DEF Idle
  <2>3. requests[r].assignedProviderId \in Provider \cup { NoProvider }
    BY <1>1 DEF RequestDoc
  <2>4. CASE requests[r].assignedProviderId = NoProvider
    <3>1. SlotOK(Cancelling(me))
      BY <2>1, CancellingSlot
    <3> QED
      BY <1>3, <2>4, <3>1, SlotStep DEF CancelLoad, TypeInv, TypeOK
  <2>5. CASE requests[r].assignedProviderId # NoProvider
    <3>1. SlotOK(me)
      BY <2>1, <2>2, <2>3, <2>5 DEF SlotOK, NamesProvider, Idle
    <3> QED
      BY <1>3, <2>5, <3>1, SlotStep DEF CancelLoad, TypeInv, TypeOK
  <2> QED
    BY <2>4, <2>5
<1>4. ASSUME NEW r \in Request, NEW to \in BreakdownStatus,
             UpdateStatusLoad(h, r, to)
      PROVE  TypeInv'
  <2> DEFINE doc == requests[r]
             local == [Idle EXCEPT
               !.pc = IF to = "COMPLETED" /\ doc.assignedProviderId # NoProvider
                        THEN "completeLoad" ELSE "saveRequest",
               !.op = "status", !.req = r, !.rload = doc,
               !.rdoc = StatusEdit(doc, to)]
  <2>1. /\ StatusEdit(doc, to) \in RequestDoc
        /\ StatusEdit(doc, to).assignedProviderId = doc.assignedProviderId
        /\ doc.assignedProviderId \in Provider \cup { NoProvider }
    BY <1>1 DEF StatusEdit, RequestDoc
  <2>2. SlotOK(local)
    BY <1>1, <2>1, DocConstantsType DEF SlotOK, NamesProvider, HandlerState, PC, HandlerOp
  <2>3. Goes(h, local)
    BY <1>4 DEF UpdateStatusLoad
  <2> QED
    BY <1>4, <2>2, <2>3, SlotStep DEF UpdateStatusLoad, TypeInv, TypeOK
<1>5. ASSUME NEW r \in Request, NEW p \in Provider, AssignLoad(h, r, p)
      PROVE  TypeInv'
  <2> DEFINE local == [Idle EXCEPT !.pc = "loadProvider", !.op = "assign",
                                   !.req = r, !.rload = requests[r],
                                   !.rdoc = requests[r], !.prov = p]
  <2>1. SlotOK(local)
    BY <1>1, DocConstantsType DEF SlotOK, NamesProvider, HandlerState, PC, HandlerOp
  <2>2. Goes(h, local)
    BY <1>5 DEF AssignLoad
  <2> QED
    BY <1>5, <2>1, <2>2, SlotStep DEF AssignLoad, TypeInv, TypeOK
<1>6. ASSUME NEW p \in Provider, NEW edited \in ProviderDoc,
             ProfileEdit(h, p, edited),
             UNCHANGED << requests, providers, everVerified >>
      PROVE  TypeInv'
  <2> DEFINE local == [Idle EXCEPT !.pc = "saveProvider", !.op = "profile",
                                   !.prov = p, !.pload = providers[p],
                                   !.pdoc = edited]
  <2>1. SlotOK(local)
    BY <1>1, DocConstantsType DEF SlotOK, NamesProvider, HandlerState, PC, HandlerOp
  <2>2. Goes(h, local)
    BY <1>6 DEF ProfileEdit
  <2> QED
    BY <1>6, <2>1, <2>2, SlotStep DEF TypeInv, TypeOK
<1>7. ASSUME NEW p \in Provider, NEW a \in AvailabilityStatus \cup { "UNSET" },
             NEW o \in OnlineStatus \cup { "UNSET" },
             AvailabilityLoad(h, p, a, o)
      PROVE  TypeInv'
  <2> DEFINE doc == providers[p]
             newOnline == IF o = "UNSET" THEN doc.onlineStatus ELSE o
             chosen == IF a = "UNSET" THEN doc.availabilityStatus ELSE a
             edited == [doc EXCEPT
               !.onlineStatus = newOnline,
               !.availabilityStatus =
                 IF newOnline = "ONLINE" /\ chosen = "OFFLINE"
                   THEN "AVAILABLE" ELSE chosen]
  <2>1. newOnline \in OnlineStatus /\ chosen \in AvailabilityStatus
    BY <1>1 DEF ProviderDoc
  <2>2. edited \in ProviderDoc
    <3> HIDE DEF newOnline, chosen
    <3> QED
      BY <1>1, <2>1 DEF ProviderDoc, AvailabilityStatus
  <2>3. ProfileEdit(h, p, edited)
    BY <1>7 DEF AvailabilityLoad
  <2> QED
    BY <1>6, <1>7, <2>2, <2>3 DEF AvailabilityLoad
<1>8. ASSUME NEW p \in Provider, NEW k \in KycInput, KycLoad(h, p, k)
      PROVE  TypeInv'
  <2>1. KycEdit(providers[p], k) \in ProviderDoc
    BY <1>1, DispatchAssumption DEF KycEdit, ProviderDoc, OnlineStatus,
       AvailabilityStatus
  <2> QED
    BY <1>6, <1>8, <2>1 DEF KycLoad
<1> QED
  BY <1>2, <1>3, <1>4, <1>5, <1>7, <1>8 DEF Accept

LEMMA ContinueTypeInv ==
  ASSUME TypeInv, NEW h \in Handler,
         Continue(h) \/ Abort(h) \/ OneSaveFails(h)
  PROVE  TypeInv'
<1> DEFINE me == handler[h]
<1>1. /\ SlotOK(me) /\ me \in HandlerState
      /\ me.rload \in RequestDoc /\ me.rdoc \in RequestDoc
      /\ me.pload \in ProviderDoc /\ me.pdoc \in ProviderDoc
      /\ \A p \in Provider : providers[p] \in ProviderDoc
  BY SlotFacts
<1>2. everVerified' \subseteq Provider
  <2>1. CASE SaveProvider(h)
    BY <1>1, <2>1 DEF SlotOK, NamesProvider, TypeInv, TypeOK, SaveProvider
  <2>2. CASE ~ SaveProvider(h)
    BY <2>2 DEF TypeInv, TypeOK, Continue, Abort, OneSaveFails,
       CreateSaveSearching, FindNearest, AssignLoadProvider, ReleaseLoad,
       ReleaseSave, AssignSaveRequest, AssignSaveProvider, CompleteLoad,
       CompleteSave, SaveRequest
  <2> QED
    BY <2>1, <2>2
<1>3. ASSUME CreateSaveSearching(h) PROVE TypeInv'
  <2>1. SlotOK([me EXCEPT !.pc = "findNearest", !.rload = me.rdoc])
    BY <1>1 DEF SlotOK, NamesProvider, HandlerState, PC
  <2> QED
    BY <1>2, <1>3, <2>1, SlotStep, StoreRequestType
    DEF CreateSaveSearching, TypeInv, TypeOK
<1>4. ASSUME FindNearest(h) PROVE TypeInv'
  <2>1. PICK local : SlotOK(local) /\ Goes(h, local)
    <3>1. \A p \in EligibleProviders :
            SlotOK(assignProviderToRequest(me, p, providers[p]))
      BY <1>1, AssignSlot DEF EligibleProviders
    <3> QED
      BY <1>4, <3>1, IdleSlot DEF FindNearest
  <2> QED
    BY <1>2, <1>4, <2>1, SlotStep DEF FindNearest, TypeInv, TypeOK
<1>5. ASSUME AssignLoadProvider(h) PROVE TypeInv'
  <2> DEFINE doc == providers[me.prov]
             releasing == [me EXCEPT !.pc = "releaseLoad",
                                     !.pload = doc, !.pdoc = doc]
  <2>1. me.prov \in Provider /\ doc \in ProviderDoc
    BY <1>1, <1>5 DEF AssignLoadProvider, SlotOK, NamesProvider
  <2>2. SlotOK(assignProviderToRequest(me, me.prov, doc))
    BY <1>1, <2>1, AssignSlot
  <2>3. ASSUME me.rdoc.assignedProviderId # NoProvider PROVE SlotOK(releasing)
    <3>1. me.rdoc.assignedProviderId \in Provider
      BY <1>1, <2>3 DEF RequestDoc
    <3> HIDE DEF doc
    <3> QED
      BY <1>1, <2>1, <3>1 DEF SlotOK, NamesProvider, HandlerState, PC
  <2>4. PICK local : SlotOK(local) /\ Goes(h, local)
    BY <1>5, <2>2, <2>3 DEF AssignLoadProvider
  <2> QED
    BY <1>2, <1>5, <2>4, SlotStep DEF AssignLoadProvider, TypeInv, TypeOK
<1>6. ASSUME ReleaseLoad(h) PROVE TypeInv'
  <2>1. me.op = "assign" => me.prov \in Provider
    BY <1>1, <1>6 DEF ReleaseLoad, SlotOK, NamesProvider
  <2>2. SlotOK(AfterRelease(me)) /\ SlotOK([me EXCEPT !.pc = "releaseSave"])
    BY <1>1, <2>1, AfterReleaseSlot DEF SlotOK, NamesProvider, HandlerState, PC
  <2>3. PICK local : SlotOK(local) /\ Goes(h, local)
    BY <1>6, <2>2 DEF ReleaseLoad
  <2> QED
    BY <1>2, <1>6, <2>3, SlotStep DEF ReleaseLoad, TypeInv, TypeOK
<1>7. ASSUME ReleaseSave(h) PROVE TypeInv'
  <2>1. me.op = "assign" => me.prov \in Provider
    BY <1>1, <1>7 DEF ReleaseSave, SlotOK, NamesProvider
  <2>2. SlotOK(AfterRelease(me)) /\ Goes(h, AfterRelease(me))
    BY <1>1, <1>7, <2>1, AfterReleaseSlot DEF ReleaseSave
  <2>3. providers' \in [Provider -> ProviderDoc]
    <3>1. \A p \in Provider :
            [providers[p] EXCEPT !.availabilityStatus = "AVAILABLE"] \in ProviderDoc
      BY <1>1 DEF ProviderDoc, AvailabilityStatus
    <3> QED
      BY <1>7, <3>1 DEF ReleaseSave, TypeInv, TypeOK
  <2> QED
    BY <1>2, <1>7, <2>2, <2>3, SlotStep DEF ReleaseSave, TypeInv, TypeOK
<1>8. ASSUME AssignSaveRequest(h) PROVE TypeInv'
  <2>1. SlotOK([me EXCEPT !.pc = "assignSaveProvider"])
    BY <1>1 DEF SlotOK, NamesProvider, HandlerState, PC
  <2>2. PICK local : SlotOK(local) /\ Goes(h, local)
    BY <1>8, <2>1, IdleSlot DEF AssignSaveRequest
  <2> QED
    BY <1>2, <1>8, <2>2, SlotStep, StoreRequestType
    DEF AssignSaveRequest, TypeInv, TypeOK
<1>9. ASSUME AssignSaveProvider(h) PROVE TypeInv'
  <2>1. SlotOK([me EXCEPT !.pc = "assignSaveRequest"])
    BY <1>1 DEF SlotOK, NamesProvider, HandlerState, PC
  <2>2. PICK local : SlotOK(local) /\ Goes(h, local)
    BY <1>9, <2>1, IdleSlot DEF AssignSaveProvider
  <2> QED
    BY <1>2, <1>9, <2>2, SlotStep, StoreProviderType
    DEF AssignSaveProvider, TypeInv, TypeOK
<1>10. ASSUME CompleteLoad(h) PROVE TypeInv'
  <2> DEFINE p == me.rdoc.assignedProviderId
             local == [me EXCEPT !.pc = "completeSave", !.prov = p,
                                 !.pload = providers[p],
                                 !.pdoc = JobDone(providers[p])]
  <2>1. p \in Provider /\ providers[p] \in ProviderDoc
    BY <1>1, <1>10 DEF CompleteLoad, SlotOK, NamesProvider
  <2>2. JobDone(providers[p]) \in ProviderDoc
    BY <2>1, JobDoneType
  <2>3. SlotOK(local)
    BY <1>1, <2>1, <2>2 DEF SlotOK, NamesProvider, HandlerState, PC
  <2> QED
    BY <1>2, <1>10, <2>3, SlotStep DEF CompleteLoad, TypeInv, TypeOK
<1>11. ASSUME CompleteSave(h) PROVE TypeInv'
  <2>1. SlotOK([me EXCEPT !.pc = "saveRequest", !.prov = NoProvider,
                          !.pload = OnboardedProvider,
                          !.pdoc = OnboardedProvider])
    BY <1>1, DocConstantsType DEF SlotOK, NamesProvider, HandlerState, PC
  <2> QED
    BY <1>2, <1>11, <2>1, SlotStep, StoreProviderType
    DEF CompleteSave, TypeInv, TypeOK
<1>12. ASSUME SaveRequest(h) PROVE TypeInv'
  BY <1>2, <1>12, IdleSlot, SlotStep, StoreRequestType
  DEF SaveRequest, TypeInv, TypeOK
<1>13. ASSUME SaveProvider(h) PROVE TypeInv'
  BY <1>2, <1>13, IdleSlot, SlotStep, StoreProviderType
  DEF SaveProvider, TypeInv, TypeOK
<1>14. ASSUME Abort(h) PROVE TypeInv'
  BY <1>2, <1>14, IdleSlot, SlotStep DEF Abort, TypeInv, TypeOK
<1>15. ASSUME OneSaveFails(h) PROVE TypeInv'
  <2>1. PICK left \in { "assignSaveRequest", "assignSaveProvider" } :
          Goes(h, [me EXCEPT !.pc = left])
    BY <1>15 DEF OneSaveFails
  <2>2. SlotOK([me EXCEPT !.pc = left])
    BY <1>1 DEF SlotOK, NamesProvider, HandlerState, PC
  <2> QED
    BY <1>2, <1>15, <2>1, <2>2, SlotStep DEF OneSaveFails, TypeInv, TypeOK
<1> QED
  BY <1>3, <1>4, <1>5, <1>6, <1>7, <1>8, <1>9, <1>10, <1>11, <1>12, <1>13,
     <1>14, <1>15
  DEF Continue

LEMMA NextTypeInv == TypeInv /\ [Next]_vars => TypeInv'
<1>1. ASSUME TypeInv, UNCHANGED vars PROVE TypeInv'
  BY <1>1 DEF vars, TypeInv, TypeOK
<1>2. ASSUME TypeInv, Next PROVE TypeInv'
  BY <1>2, AcceptTypeInv, ContinueTypeInv DEF Next
<1> QED
  BY <1>1, <1>2

LEMMA SpecTypeInv == Spec => []TypeInv
BY InitTypeInv, NextTypeInv, PTL DEF Spec

\* Documents and handlers keep their shapes.
THEOREM TypeCorrect == Spec => []TypeOK
<1>1. TypeInv => TypeOK
  BY DEF TypeInv
<1> QED
  BY <1>1, SpecTypeInv, PTL

-----------------------------------------------------------------------------
(***************************************************************************)
(* What a status says has happened.  A handler saves a document that it    *)
(* loaded several awaits before, over one that others have changed since.  *)
(* The invariant says why this does no harm: dates are only ever added and *)
(* an assignment is only ever replaced, so what the handler loaded is still*)
(* there, and what it edited accounts for the status it is about to write. *)
(***************************************************************************)
Keeps(old, new) ==
  /\ old.arrivedAt => new.arrivedAt
  /\ old.completedAt => new.completedAt
  /\ old.cancelledAt => new.cancelledAt
  /\ old.assignedAt => new.assignedAt
  /\ old.assignedProviderId # NoProvider => new.assignedProviderId # NoProvider

Accounted(doc) ==
  /\ Milestones(doc)
  /\ doc.assignedProviderId # NoProvider => doc.assignedAt
  /\ "adminStatus" \notin Ops =>
       /\ doc.status = "CANCELLED" => doc.cancelledAt
       /\ doc.status \in EngagedStatus \cup { "COMPLETED" } =>
            doc.assignedProviderId # NoProvider

AllAccounted == \A r \in Request : Accounted(requests[r])

SlotAccounted(local) ==
  /\ Accounted(local.rdoc)
  /\ Keeps(local.rload, local.rdoc)
  /\ local.req \in Request => Keeps(local.rload, requests[local.req])

AccountInv ==
  /\ TypeInv
  /\ AllAccounted
  /\ \A h \in Handler : SlotAccounted(handler[h])

\* A save keeps the stored times, adds the edited ones, and the result still
\* accounts for its status.
LEMMA SavedAccounted ==
  ASSUME NEW stored \in RequestDoc, NEW loaded \in RequestDoc,
         NEW edited \in RequestDoc,
         Accounted(stored), Accounted(edited),
         Keeps(loaded, edited), Keeps(loaded, stored)
  PROVE  /\ Accounted(SavedRequest(stored, loaded, edited))
         /\ Keeps(stored, SavedRequest(stored, loaded, edited))
         /\ Keeps(edited, SavedRequest(stored, loaded, edited))
<1> DEFINE saved == SavedRequest(stored, loaded, edited)
<1>1. /\ saved.arrivedAt = (stored.arrivedAt \/ edited.arrivedAt)
      /\ saved.completedAt = (stored.completedAt \/ edited.completedAt)
      /\ saved.cancelledAt = (stored.cancelledAt \/ edited.cancelledAt)
      /\ saved.assignedAt = (stored.assignedAt \/ edited.assignedAt)
      /\ saved.status \in { stored.status, edited.status }
  BY DEF SavedRequest, Written, Keeps, RequestDoc
<1>2. /\ saved.assignedProviderId \in { stored.assignedProviderId,
                                         edited.assignedProviderId }
      /\ stored.assignedProviderId # NoProvider \/ edited.assignedProviderId # NoProvider
           => saved.assignedProviderId # NoProvider
  BY DEF SavedRequest, Written, Keeps, RequestDoc
<1> HIDE DEF saved
<1>3. Keeps(stored, saved) /\ Keeps(edited, saved)
  BY <1>1, <1>2 DEF Keeps, RequestDoc
<1>4. Milestones(saved)
  BY <1>1 DEF Accounted, Milestones, RequestDoc
<1>5. Accounted(saved)
  BY <1>1, <1>2, <1>4 DEF Accounted, RequestDoc
<1> QED
  BY <1>3, <1>5 DEF saved

\* An update along an edge of the transition table, by whoever may do it.
LEMMA StatusEditAccounted ==
  ASSUME NEW doc \in RequestDoc, NEW to \in BreakdownStatus,
         doc.status # "ABSENT", canTransition(doc.status, to),
         MayUpdateStatus(doc, to), Accounted(doc)
  PROVE  Accounted(StatusEdit(doc, to)) /\ Keeps(doc, StatusEdit(doc, to))
<1>1. /\ to = "IN_PROGRESS" => doc.status = "ARRIVED"
      /\ to = "COMPLETED" => doc.status = "IN_PROGRESS"
  BY DEF canTransition, ALLOWED_TRANSITIONS, RequestDoc, BreakdownStatus
<1>2. /\ StatusEdit(doc, to).status = to
      /\ StatusEdit(doc, to).arrivedAt = (doc.arrivedAt \/ to = "ARRIVED")
      /\ StatusEdit(doc, to).completedAt = (doc.completedAt \/ to = "COMPLETED")
      /\ StatusEdit(doc, to).cancelledAt = doc.cancelledAt
      /\ StatusEdit(doc, to).assignedAt = doc.assignedAt
      /\ StatusEdit(doc, to).assignedProviderId = doc.assignedProviderId
  BY DEF StatusEdit, RequestDoc
<1>3. "adminStatus" \notin Ops =>
        doc.assignedProviderId # NoProvider /\ to # "CANCELLED"
  BY DispatchAssumption DEF MayUpdateStatus, PROVIDER_PROGRESS_STATUSES
<1> HIDE DEF StatusEdit
<1>4. Keeps(doc, StatusEdit(doc, to))
  BY <1>2 DEF Keeps
<1>5. Milestones(StatusEdit(doc, to))
  BY <1>1, <1>2 DEF Accounted, Milestones, RequestDoc
<1> QED
  BY <1>2, <1>3, <1>4, <1>5 DEF Accounted

\* A step that keeps every stored time, and fills its slot properly,
\* preserves the invariant of all slots.
LEMMA AccountStep ==
  ASSUME AccountInv, NEW h \in Handler, NEW local \in HandlerState,
         Goes(h, local),
         \A r \in Request : /\ Keeps(requests[r], requests'[r])
                            /\ Accounted(requests'[r]),
         Accounted(local.rdoc), Keeps(local.rload, local.rdoc),
         local.req \in Request => Keeps(local.rload, requests'[local.req])
  PROVE  AllAccounted' /\ \A g \in Handler : SlotAccounted(handler[g])'
<1>1. /\ handler'[h] = local
      /\ \A g \in Handler : g # h => handler'[g] = handler[g]
  BY GoesSlot DEF AccountInv, TypeInv, TypeOK
<1>2. AllAccounted'
  BY DEF AllAccounted
<1>3. SlotAccounted(handler[h])'
  BY <1>1 DEF SlotAccounted
<1>4. ASSUME NEW g \in Handler, g # h PROVE SlotAccounted(handler[g])'
  BY <1>1, <1>4 DEF AccountInv, SlotAccounted, Keeps
<1> QED
  BY <1>2, <1>3, <1>4

LEMMA StoreRequestAccounted ==
  ASSUME AccountInv, NEW h \in Handler, StoreRequest(h)
  PROVE  /\ \A r \in Request : /\ Keeps(requests[r], requests'[r])
                               /\ Accounted(requests'[r])
         /\ handler[h].req \in Request =>
              Keeps(handler[h].rdoc, requests'[handler[h].req])
<1> DEFINE me == handler[h]
<1>1. /\ me.rload \in RequestDoc /\ me.rdoc \in RequestDoc
      /\ \A r \in Request : requests[r] \in RequestDoc /\ Accounted(requests[r])
      /\ SlotAccounted(me)
      /\ requests \in [Request -> RequestDoc]
  BY SlotFacts DEF AccountInv, AllAccounted, TypeInv, TypeOK
<1>2. ASSUME NEW r \in Request, r # me.req PROVE requests'[r] = requests[r]
  BY <1>1, <1>2 DEF StoreRequest
<1>3. ASSUME me.req \in Request
      PROVE  /\ Accounted(requests'[me.req])
             /\ Keeps(requests[me.req], requests'[me.req])
             /\ Keeps(me.rdoc, requests'[me.req])
  <2>1. requests'[me.req] = SavedRequest(requests[me.req], me.rload, me.rdoc)
    BY <1>1, <1>3 DEF StoreRequest
  <2> QED
    BY <1>1, <1>3, <2>1, SavedAccounted DEF SlotAccounted
<1> QED
  BY <1>1, <1>2, <1>3 DEF Keeps

LEMMA IdleAccounted == SlotAccounted(Idle)
BY DispatchAssumption DEF SlotAccounted, Accounted, Milestones, Keeps, Idle,
   AbsentRequest, EngagedStatus

LEMMA AssignAccounted ==
  ASSUME NEW me \in HandlerState, SlotAccounted(me),
         NEW p \in Provider, NEW doc \in ProviderDoc
  PROVE  SlotAccounted(assignProviderToRequest(me, p, doc))
<1>1. CASE mayBeAssigned(doc)
  BY <1>1, DispatchAssumption DEF assignProviderToRequest, SlotAccounted,
     Accounted, Milestones, Keeps, HandlerState, RequestDoc, EngagedStatus
<1>2. CASE ~ mayBeAssigned(doc)
  BY <1>2, IdleAccounted DEF assignProviderToRequest
<1> QED
  BY <1>1, <1>2

LEMMA CancellingAccounted ==
  ASSUME NEW me \in HandlerState, SlotAccounted(me)
  PROVE  SlotAccounted(Cancelling(me))
BY DEF Cancelling, SlotAccounted, Accounted, Milestones, Keeps, HandlerState,
   RequestDoc, EngagedStatus

\* A step that leaves the collection alone.
LEMMA AccountQuiet ==
  ASSUME AccountInv, NEW h \in Handler, NEW local \in HandlerState,
         Goes(h, local), UNCHANGED requests, SlotAccounted(local)
  PROVE  AllAccounted' /\ \A g \in Handler : SlotAccounted(handler[g])'
<1>1. \A r \in Request : /\ Keeps(requests[r], requests'[r])
                         /\ Accounted(requests'[r])
  BY DEF Keeps, AccountInv, AllAccounted
<1>2. /\ Accounted(local.rdoc) /\ Keeps(local.rload, local.rdoc)
      /\ local.req \in Request => Keeps(local.rload, requests'[local.req])
  BY DEF SlotAccounted
<1> QED
  BY <1>1, <1>2, AccountStep

LEMMA AcceptAccounted ==
  ASSUME AccountInv, NEW h \in Handler, Accept(h)
  PROVE  AllAccounted' /\ \A g \in Handler : SlotAccounted(handler[g])'
<1>1. /\ \A r \in Request : requests[r] \in RequestDoc /\ Accounted(requests[r])
      /\ \A p \in Provider : providers[p] \in ProviderDoc
      /\ requests \in [Request -> RequestDoc]
  BY SlotFacts DEF AccountInv, AllAccounted, TypeInv, TypeOK
\* The new content of a slot that holds a document just loaded, edited or not.
<1>2. ASSUME NEW local \in HandlerState, NEW r \in Request,
             local.req = r, local.rload = requests[r],
             Accounted(local.rdoc), Keeps(requests[r], local.rdoc),
             Goes(h, local), UNCHANGED requests
      PROVE  AllAccounted' /\ \A g \in Handler : SlotAccounted(handler[g])'
  <2>1. SlotAccounted(local)
    BY <1>2 DEF SlotAccounted, Keeps
  <2> QED
    BY <1>2, <2>1, AccountQuiet
<1>3. handler' \in [Handler -> HandlerState] /\ handler'[h] \in HandlerState
  <2>1. TypeInv'
    BY AcceptTypeInv DEF AccountInv
  <2> QED
    BY <2>1 DEF TypeInv, TypeOK
<1>4. ASSUME NEW r \in Request, CreateInsert(h, r)
      PROVE  AllAccounted' /\ \A g \in Handler : SlotAccounted(handler[g])'
  <2> DEFINE searching == [NewRequest EXCEPT !.status = "SEARCHING_PROVIDER"]
             local == [Idle EXCEPT !.pc = "saveSearching", !.op = "create",
                                   !.req = r, !.rload = NewRequest,
                                   !.rdoc = searching]
  <2>1. Goes(h, local) /\ local \in HandlerState
    <3>1. Goes(h, local)
      BY <1>4 DEF CreateInsert
    <3>2. handler'[h] = local
      BY <3>1 DEF Goes, AccountInv, TypeInv, TypeOK
    <3> QED
      BY <1>3, <3>1, <3>2
  <2>2. /\ Accounted(NewRequest) /\ Accounted(searching)
        /\ Keeps(NewRequest, searching) /\ Keeps(AbsentRequest, NewRequest)
    BY DEF Accounted, Milestones, Keeps, NewRequest, AbsentRequest, EngagedStatus
  <2>3. \A x \in Request : /\ Keeps(requests[x], requests'[x])
                           /\ Accounted(requests'[x])
    BY <1>1, <1>4, <2>2 DEF CreateInsert, Keeps
  <2>4. local.req = r /\ local.rload = NewRequest /\ local.rdoc = searching
    <3> HIDE DEF searching
    <3> QED
      BY DEF Idle
  <2>5. Keeps(NewRequest, requests'[r])
    BY <1>1, <1>4 DEF CreateInsert, Keeps
  <2> HIDE DEF local, searching
  <2> QED
    BY <2>1, <2>2, <2>3, <2>4, <2>5, AccountStep
<1>5. ASSUME NEW r \in Request, CancelLoad(h, r)
      PROVE  AllAccounted' /\ \A g \in Handler : SlotAccounted(handler[g])'
  <2> DEFINE me == [Idle EXCEPT !.pc = "releaseLoad", !.op = "cancel",
                                !.req = r, !.rload = requests[r],
                                !.rdoc = requests[r]]
  <2>1. me \in HandlerState /\ SlotAccounted(me)
    BY <1>1, DocConstantsType DEF HandlerState, PC, HandlerOp, SlotAccounted,
       Keeps
  <2>2. Cancelling(me) \in HandlerState /\ SlotAccounted(Cancelling(me))
    BY <2>1, CancellingType, CancellingAccounted
  <2>3. Goes(h, me) \/ Goes(h, Cancelling(me))
    BY <1>5 DEF CancelLoad
  <2> QED
    BY <1>5, <2>1, <2>2, <2>3, AccountQuiet DEF CancelLoad
<1>6. ASSUME NEW r \in Request, NEW to \in BreakdownStatus,
             UpdateStatusLoad(h, r, to)
      PROVE  AllAccounted' /\ \A g \in Handler : SlotAccounted(handler[g])'
  <2> DEFINE doc == requests[r]
             edited == StatusEdit(doc, to)
             local == [Idle EXCEPT
               !.pc = IF to = "COMPLETED" /\ doc.assignedProviderId # NoProvider
                        THEN "completeLoad" ELSE "saveRequest",
               !.op = "status", !.req = r, !.rload = doc, !.rdoc = edited]
  <2>1. Accounted(edited) /\ Keeps(doc, edited)
    BY <1>1, <1>6, StatusEditAccounted DEF UpdateStatusLoad
  <2>2. Goes(h, local) /\ UNCHANGED requests
    BY <1>6 DEF UpdateStatusLoad
  <2>3. handler'[h] = local
    BY <2>2 DEF Goes, AccountInv, TypeInv, TypeOK
  <2>4. local.req = r /\ local.rload = doc /\ local.rdoc = edited
    BY DEF Idle
  <2> HIDE DEF local, edited
  <2> QED
    BY <1>2, <1>3, <2>1, <2>2, <2>3, <2>4
<1>7. ASSUME NEW r \in Request, NEW p \in Provider, AssignLoad(h, r, p)
      PROVE  AllAccounted' /\ \A g \in Handler : SlotAccounted(handler[g])'
  <2> DEFINE local == [Idle EXCEPT !.pc = "loadProvider", !.op = "assign",
                                   !.req = r, !.rload = requests[r],
                                   !.rdoc = requests[r], !.prov = p]
  <2>1. local \in HandlerState
    BY <1>1, DocConstantsType DEF HandlerState, PC, HandlerOp
  <2>2. SlotAccounted(local)
    BY <1>1 DEF SlotAccounted, Keeps, Idle
  <2> QED
    BY <1>7, <2>1, <2>2, AccountQuiet DEF AssignLoad
<1>8. ASSUME NEW p \in Provider, NEW edited, ProfileEdit(h, p, edited),
             UNCHANGED requests
      PROVE  AllAccounted' /\ \A g \in Handler : SlotAccounted(handler[g])'
  <2> DEFINE local == [Idle EXCEPT !.pc = "saveProvider", !.op = "profile",
                                   !.prov = p, !.pload = providers[p],
                                   !.pdoc = edited]
  <2>1. SlotAccounted(local)
    BY IdleAccounted DEF SlotAccounted, Idle
  <2>2. handler'[h] = local
    BY <1>8 DEF ProfileEdit, Goes, AccountInv, TypeInv, TypeOK
  <2> QED
    BY <1>3, <1>8, <2>1, <2>2, AccountQuiet DEF ProfileEdit
<1> QED
  BY <1>4, <1>5, <1>6, <1>7, <1>8 DEF Accept, AvailabilityLoad, KycLoad

LEMMA ContinueAccounted ==
  ASSUME AccountInv, NEW h \in Handler,
         Continue(h) \/ Abort(h) \/ OneSaveFails(h)
  PROVE  AllAccounted' /\ \A g \in Handler : SlotAccounted(handler[g])'
<1> DEFINE me == handler[h]
<1>1. /\ SlotOK(me) /\ me \in HandlerState /\ SlotAccounted(me)
      /\ me.pload \in ProviderDoc
      /\ \A p \in Provider : providers[p] \in ProviderDoc
      /\ handler' \in [Handler -> HandlerState]
  BY SlotFacts, ContinueTypeInv DEF AccountInv, TypeInv, TypeOK
\* A step that moves the handler on, its request documents as they were.
<1>2. ASSUME NEW local \in HandlerState, Goes(h, local), UNCHANGED requests,
             local.req = me.req, local.rload = me.rload, local.rdoc = me.rdoc
      PROVE  AllAccounted' /\ \A g \in Handler : SlotAccounted(handler[g])'
  BY <1>1, <1>2, AccountQuiet DEF SlotAccounted
\* The end of a handler after its last save.
<1>3. ASSUME StoreRequest(h), NEW local \in HandlerState, Goes(h, local),
             \/ local = Idle
             \/ /\ local.req = me.req /\ local.rdoc = me.rdoc
                /\ local.rload \in { me.rload, me.rdoc }
      PROVE  AllAccounted' /\ \A g \in Handler : SlotAccounted(handler[g])'
  <2>1. /\ \A r \in Request : /\ Keeps(requests[r], requests'[r])
                              /\ Accounted(requests'[r])
        /\ me.req \in Request => Keeps(me.rdoc, requests'[me.req])
    BY <1>3, StoreRequestAccounted
  <2>2. /\ Accounted(local.rdoc) /\ Keeps(local.rload, local.rdoc)
        /\ local.req \in Request => Keeps(local.rload, requests'[local.req])
    <3>1. CASE local = Idle
      BY <3>1, IdleAccounted, DispatchAssumption DEF SlotAccounted, Idle
    <3>2. CASE local # Idle
      BY <1>1, <1>3, <2>1, <3>2 DEF SlotAccounted, Keeps
    <3> QED
      BY <3>1, <3>2
  <2> QED
    BY <1>3, <2>1, <2>2, AccountStep
<1>4. ASSUME CreateSaveSearching(h)
      PROVE  AllAccounted' /\ \A g \in Handler : SlotAccounted(handler[g])'
  <2> DEFINE local == [me EXCEPT !.pc = "findNearest", !.rload = me.rdoc]
  <2>1. local \in HandlerState /\ local.req = me.req /\ local.rdoc = me.rdoc
        /\ local.rload = me.rdoc
    BY <1>1 DEF HandlerState, PC
  <2> QED
    BY <1>3, <1>4, <2>1 DEF CreateSaveSearching
<1>5. ASSUME FindNearest(h)
      PROVE  AllAccounted' /\ \A g \in Handler : SlotAccounted(handler[g])'
  <2>1. \A p \in EligibleProviders :
          LET local == assignProviderToRequest(me, p, providers[p]) IN
          local \in HandlerState /\ SlotAccounted(local)
    BY <1>1, AssignType, AssignAccounted DEF EligibleProviders
  <2> QED
    BY <1>5, <2>1, DocConstantsType, IdleAccounted, AccountQuiet
    DEF FindNearest
<1>6. ASSUME AssignLoadProvider(h)
      PROVE  AllAccounted' /\ \A g \in Handler : SlotAccounted(handler[g])'
  <2> DEFINE doc == providers[me.prov]
             releasing == [me EXCEPT !.pc = "releaseLoad",
                                     !.pload = doc, !.pdoc = doc]
  <2>1. me.prov \in Provider /\ doc \in ProviderDoc
    BY <1>1, <1>6 DEF AssignLoadProvider, SlotOK, NamesProvider
  <2>2. releasing \in HandlerState /\ releasing.req = me.req
        /\ releasing.rload = me.rload /\ releasing.rdoc = me.rdoc
    <3> HIDE DEF doc
    <3> QED
      BY <1>1, <2>1 DEF HandlerState, PC
  <2>3. LET local == assignProviderToRequest(me, me.prov, doc) IN
        local \in HandlerState /\ SlotAccounted(local)
    BY <1>1, <2>1, AssignType, AssignAccounted
  <2> QED
    BY <1>2, <1>6, <2>2, <2>3, AccountQuiet DEF AssignLoadProvider
<1>7. ASSUME me.pc \in { "releaseLoad", "releaseSave" }
      PROVE  AfterRelease(me) \in HandlerState /\ SlotAccounted(AfterRelease(me))
  <2>1. me.op = "assign" => me.prov \in Provider
    BY <1>1, <1>7 DEF SlotOK, NamesProvider
  <2> QED
    BY <1>1, <2>1, AssignType, AssignAccounted, CancellingType,
       CancellingAccounted DEF AfterRelease
<1>8. ASSUME ReleaseLoad(h)
      PROVE  AllAccounted' /\ \A g \in Handler : SlotAccounted(handler[g])'
  <2> DEFINE local == [me EXCEPT !.pc = "releaseSave"]
  <2>1. local \in HandlerState /\ local.req = me.req
        /\ local.rload = me.rload /\ local.rdoc = me.rdoc
    BY <1>1 DEF HandlerState, PC
  <2> QED
    BY <1>2, <1>7, <1>8, <2>1, AccountQuiet DEF ReleaseLoad
<1>9. ASSUME ReleaseSave(h)
      PROVE  AllAccounted' /\ \A g \in Handler : SlotAccounted(handler[g])'
  BY <1>7, <1>9, AccountQuiet DEF ReleaseSave
<1>10. ASSUME AssignSaveRequest(h) \/ SaveRequest(h)
       PROVE  AllAccounted' /\ \A g \in Handler : SlotAccounted(handler[g])'
  <2> DEFINE local == [me EXCEPT !.pc = "assignSaveProvider"]
  <2>1. local \in HandlerState /\ local.req = me.req
        /\ local.rload = me.rload /\ local.rdoc = me.rdoc
    BY <1>1 DEF HandlerState, PC
  <2> QED
    BY <1>3, <1>10, <2>1, DocConstantsType DEF AssignSaveRequest, SaveRequest
<1>11. ASSUME AssignSaveProvider(h)
       PROVE  AllAccounted' /\ \A g \in Handler : SlotAccounted(handler[g])'
  <2> DEFINE local == [me EXCEPT !.pc = "assignSaveRequest"]
  <2>1. local \in HandlerState /\ local.req = me.req
        /\ local.rload = me.rload /\ local.rdoc = me.rdoc
    BY <1>1 DEF HandlerState, PC
  <2> QED
    BY <1>2, <1>11, <2>1, DocConstantsType, IdleAccounted, AccountQuiet
    DEF AssignSaveProvider
<1>12. ASSUME CompleteLoad(h) \/ CompleteSave(h) \/ OneSaveFails(h)
       PROVE  AllAccounted' /\ \A g \in Handler : SlotAccounted(handler[g])'
  <2>1. handler'[h].req = me.req /\ handler'[h].rload = me.rload
        /\ handler'[h].rdoc = me.rdoc /\ UNCHANGED requests
    <3>1. handler \in [Handler -> HandlerState]
      BY DEF AccountInv, TypeInv, TypeOK
    <3>2. CASE CompleteLoad(h)
      BY <1>1, <3>1, <3>2 DEF CompleteLoad, Goes, HandlerState
    <3>3. CASE CompleteSave(h)
      BY <1>1, <3>1, <3>3 DEF CompleteSave, Goes, HandlerState
    <3>4. CASE OneSaveFails(h)
      BY <1>1, <3>1, <3>4 DEF OneSaveFails, Goes, HandlerState
    <3> QED
      BY <1>12, <3>2, <3>3, <3>4
  <2>2. Goes(h, handler'[h]) /\ handler'[h] \in HandlerState
    BY <1>1, <1>12 DEF CompleteLoad, CompleteSave, OneSaveFails, Goes,
       AccountInv, TypeInv, TypeOK
  <2> QED
    BY <1>2, <2>1, <2>2
<1>13. ASSUME SaveProvider(h) \/ Abort(h)
       PROVE  AllAccounted' /\ \A g \in Handler : SlotAccounted(handler[g])'
  BY <1>13, DocConstantsType, IdleAccounted, AccountQuiet
  DEF SaveProvider, Abort
<1> QED
  BY <1>4, <1>5, <1>6, <1>8, <1>9, <1>10, <1>11, <1>12, <1>13 DEF Continue

LEMMA AccountInvInductive ==
  /\ Init => AccountInv
  /\ AccountInv /\ [Next]_vars => AccountInv'
<1>1. ASSUME Init PROVE AccountInv
  <2>1. AllAccounted
    BY <1>1 DEF Init, AllAccounted, Accounted, Milestones, AbsentRequest,
       EngagedStatus
  <2>2. \A h \in Handler : SlotAccounted(handler[h])
    BY <1>1, IdleAccounted DEF Init
  <2> QED
    BY <1>1, <2>1, <2>2, InitTypeInv DEF AccountInv
<1>2. ASSUME AccountInv, UNCHANGED vars PROVE AccountInv'
  <2>1. TypeInv'
    BY <1>2, NextTypeInv DEF AccountInv
  <2> QED
    BY <1>2, <2>1 DEF AccountInv, AllAccounted, SlotAccounted, vars
<1>3. ASSUME AccountInv, Next PROVE AccountInv'
  <2>1. TypeInv'
    BY <1>3, NextTypeInv DEF AccountInv
  <2> QED
    BY <1>3, <2>1, AcceptAccounted, ContinueAccounted DEF Next, AccountInv
<1> QED
  BY <1>1, <1>2, <1>3

\* Under any interleaving of any number of handlers and any faults, the
\* arrival and completion times of a request account for its status.
THEOREM MilestonesAlwaysRecorded == Spec => []MilestonesRecorded
<1>1. AccountInv => MilestonesRecorded
  BY DEF AccountInv, AllAccounted, Accounted, MilestonesRecorded
<1> QED
  BY <1>1, AccountInvInductive, PTL DEF Spec

\* Under any interleaving and any faults, a CANCELLED request is dated and one
\* that somebody works on, or has finished, says who, unless admins write
\* statuses by hand.
THEOREM StatusAlwaysAccountedFor == Spec => []StatusIsAccountedFor
<1>1. AccountInv => StatusIsAccountedFor
  BY DEF AccountInv, AllAccounted, Accounted, StatusIsAccountedFor,
     CancellationDated, EngagedHasProvider
<1> QED
  BY <1>1, AccountInvInductive, PTL DEF Spec

\* The collection changes by an insert or by a handler's save, and neither
\* takes back a date or an assignment.
LEMMA StepKeeps ==
  ASSUME AccountInv, [Next]_vars, NEW r \in Request
  PROVE  Keeps(requests[r], requests'[r]) /\ Accounted(requests'[r])
<1>1. CASE UNCHANGED requests
  BY <1>1 DEF Keeps, AccountInv, AllAccounted
<1>2. ASSUME NEW h \in Handler, StoreRequest(h)
      PROVE  Keeps(requests[r], requests'[r]) /\ Accounted(requests'[r])
  BY <1>2, StoreRequestAccounted
<1>3. ASSUME NEW h \in Handler, NEW x \in Request, CreateInsert(h, x)
      PROVE  Keeps(requests[r], requests'[r]) /\ Accounted(requests'[r])
  <2>1. Keeps(AbsentRequest, NewRequest) /\ Accounted(NewRequest)
    BY DEF Keeps, Accounted, Milestones, AbsentRequest, NewRequest, EngagedStatus
  <2>2. requests[x] = AbsentRequest /\ requests' = [requests EXCEPT ![x] = NewRequest]
    BY <1>3 DEF CreateInsert
  <2>3. CASE r = x
    BY <2>1, <2>2, <2>3 DEF AccountInv, TypeInv, TypeOK
  <2>4. CASE r # x
    <3>1. requests'[r] = requests[r]
      BY <2>2, <2>4 DEF AccountInv, TypeInv, TypeOK
    <3> QED
      BY <3>1 DEF Keeps, AccountInv, AllAccounted
  <2> QED
    BY <2>3, <2>4
<1>4. ASSUME NEW h \in Handler, Accept(h)
      PROVE  UNCHANGED requests \/ \E x \in Request : CreateInsert(h, x)
  BY <1>4 DEF Accept, CancelLoad, UpdateStatusLoad, AssignLoad,
     AvailabilityLoad, KycLoad
<1>5. ASSUME NEW h \in Handler, Continue(h)
      PROVE  UNCHANGED requests \/ StoreRequest(h)
  BY <1>5 DEF Continue, CreateSaveSearching, FindNearest, AssignLoadProvider,
     ReleaseLoad, ReleaseSave, AssignSaveRequest, AssignSaveProvider,
     CompleteLoad, CompleteSave, SaveRequest, SaveProvider
<1>6. ASSUME NEW h \in Handler, Abort(h) \/ OneSaveFails(h)
      PROVE  UNCHANGED requests
  BY <1>6 DEF Abort, OneSaveFails
<1>7. UNCHANGED vars => UNCHANGED requests
  BY DEF vars
<1> QED
  BY <1>1, <1>2, <1>3, <1>4, <1>5, <1>6, <1>7 DEF Next

\* No stale save of any handler takes an assignment back or undates it.
THEOREM AssignmentIsKept == Spec => AssignmentNeverWithdrawn
<1>1. AccountInv /\ [Next]_vars =>
        [\A r \in Request :
           requests[r].assignedProviderId # NoProvider =>
             /\ requests'[r].assignedProviderId # NoProvider
             /\ requests'[r].assignedAt]_vars
  <2> SUFFICES ASSUME AccountInv, [Next]_vars
               PROVE  \A r \in Request :
                        requests[r].assignedProviderId # NoProvider =>
                          /\ requests'[r].assignedProviderId # NoProvider
                          /\ requests'[r].assignedAt
    OBVIOUS
  <2> TAKE r \in Request
  <2> QED
    BY StepKeeps DEF Keeps, Accounted
<1> QED
  BY <1>1, AccountInvInductive, PTL DEF Spec, AssignmentNeverWithdrawn

-----------------------------------------------------------------------------
(***************************************************************************)
(* No service before the first verification.  Every handler reads the KYC  *)
(* status of a provider some awaits before it writes; the invariant says   *)
(* what a handler can hold of a provider that was never verified: nothing  *)
(* that it could be assigned, credited or put on line with.                *)
(***************************************************************************)
Unserved(p) ==
  /\ providers[p].onlineStatus = "OFFLINE"
  /\ providers[p].kycStatus # "VERIFIED"
  /\ providers[p].totalCompletedRequests = 0
  /\ \A r \in Request : requests[r].assignedProviderId # p

HoldsUnserved(local, p) ==
  /\ local.rdoc.assignedProviderId # p
  /\ local.prov = p =>
       /\ local.pc \notin { "assignSaveBoth", "assignSaveRequest",
                            "assignSaveProvider", "completeSave" }
       /\ local.pload.kycStatus # "VERIFIED"
       /\ local.pload.totalCompletedRequests = 0
       /\ local.pdoc.onlineStatus = "OFFLINE"
       /\ local.pdoc.totalCompletedRequests = 0

NeverVerified(p) ==
  Unserved(p) /\ \A h \in Handler : HoldsUnserved(handler[h], p)

ReviewInv == TypeInv /\ \A p \in Provider \ everVerified : NeverVerified(p)

LEMMA IdleUnserved == \A p \in Provider : HoldsUnserved(Idle, p)
BY DispatchAssumption DEF HoldsUnserved, Idle, AbsentRequest, OnboardedProvider

\* assignProviderToRequest refuses a provider whose KYC, as loaded, is not
\* VERIFIED: what it leaves in the slot is about another provider.
LEMMA AssignUnserved ==
  ASSUME NEW me \in HandlerState, NEW p \in Provider, HoldsUnserved(me, p),
         NEW q \in Provider, NEW doc \in ProviderDoc,
         q = p => doc.kycStatus # "VERIFIED"
  PROVE  HoldsUnserved(assignProviderToRequest(me, q, doc), p)
<1>1. CASE mayBeAssigned(doc)
  <2>1. q # p
    BY <1>1 DEF mayBeAssigned
  <2>2. /\ assignProviderToRequest(me, q, doc).rdoc.assignedProviderId = q
        /\ assignProviderToRequest(me, q, doc).prov = q
    BY <1>1 DEF assignProviderToRequest, HandlerState, RequestDoc
  <2> QED
    BY <2>1, <2>2 DEF HoldsUnserved
<1>2. CASE ~ mayBeAssigned(doc)
  BY <1>2, IdleUnserved DEF assignProviderToRequest
<1> QED
  BY <1>1, <1>2

LEMMA CancellingUnserved ==
  ASSUME NEW me \in HandlerState, NEW p \in Provider, HoldsUnserved(me, p)
  PROVE  HoldsUnserved(Cancelling(me), p)
BY DEF Cancelling, HoldsUnserved, HandlerState, RequestDoc

\* A handler ends or goes on, and writes nothing.
LEMMA UnservedQuiet ==
  ASSUME TypeInv, NEW p \in Provider, NeverVerified(p), NEW h \in Handler,
         NEW local \in HandlerState, Goes(h, local), HoldsUnserved(local, p),
         UNCHANGED << requests, providers >>
  PROVE  NeverVerified(p)'
<1>1. \A g \in Handler : HoldsUnserved(handler'[g], p)
  BY GoesSlot DEF NeverVerified, TypeInv, TypeOK
<1> QED
  BY <1>1 DEF NeverVerified, Unserved

\* A handler's save of its request leaves every request naming another.
LEMMA UnservedStoreRequest ==
  ASSUME TypeInv, NEW p \in Provider, NeverVerified(p), NEW h \in Handler,
         NEW local \in HandlerState, Goes(h, local), HoldsUnserved(local, p),
         StoreRequest(h), UNCHANGED providers
  PROVE  NeverVerified(p)'
<1>1. \A g \in Handler : HoldsUnserved(handler'[g], p)
  BY GoesSlot DEF NeverVerified, TypeInv, TypeOK
<1>2. \A r \in Request : requests'[r].assignedProviderId # p
  BY DEF StoreRequest, SavedRequest, Written, NeverVerified, Unserved,
     HoldsUnserved, TypeInv, TypeOK
<1> QED
  BY <1>1, <1>2 DEF NeverVerified, Unserved

\* A save of another provider.
LEMMA UnservedStoreOther ==
  ASSUME TypeInv, NEW p \in Provider, NeverVerified(p), NEW h \in Handler,
         NEW local \in HandlerState, Goes(h, local), HoldsUnserved(local, p),
         providers'[p] = providers[p], UNCHANGED requests
  PROVE  NeverVerified(p)'
<1>1. \A g \in Handler : HoldsUnserved(handler'[g], p)
  BY GoesSlot DEF NeverVerified, TypeInv, TypeOK
<1> QED
  BY <1>1 DEF NeverVerified, Unserved

LEMMA AcceptUnserved ==
  ASSUME TypeInv, NEW p \in Provider, NeverVerified(p), NEW h \in Handler,
         Accept(h)
  PROVE  NeverVerified(p)'
<1>1. /\ \A q \in Provider : providers[q] \in ProviderDoc
      /\ requests \in [Request -> RequestDoc]
      /\ handler \in [Handler -> HandlerState]
      /\ handler' \in [Handler -> HandlerState]
      /\ \A r \in Request : requests[r].assignedProviderId # p
  BY AcceptTypeInv, SlotFacts DEF TypeInv, TypeOK, NeverVerified, Unserved
<1>2. ASSUME NEW local, Goes(h, local)
      PROVE  local \in HandlerState
  BY <1>1, <1>2 DEF Goes
<1>3. ASSUME NEW r \in Request, CreateInsert(h, r) PROVE NeverVerified(p)'
  <2> DEFINE local == [Idle EXCEPT !.pc = "saveSearching", !.op = "create",
                                   !.req = r, !.rload = NewRequest,
                                   !.rdoc = [NewRequest EXCEPT
                                               !.status = "SEARCHING_PROVIDER"]]
  <2>1. Goes(h, local) /\ HoldsUnserved(local, p)
    BY <1>3, DispatchAssumption DEF CreateInsert, HoldsUnserved, Idle,
       NewRequest, AbsentRequest
  <2>2. \A g \in Handler : HoldsUnserved(handler'[g], p)
    BY <1>2, <2>1, GoesSlot DEF NeverVerified, TypeInv, TypeOK
  <2>3. \A x \in Request : requests'[x].assignedProviderId # p
    BY <1>1, <1>3, DispatchAssumption DEF CreateInsert, NewRequest, AbsentRequest
  <2> QED
    BY <1>3, <2>2, <2>3 DEF CreateInsert, NeverVerified, Unserved
<1>4. ASSUME NEW r \in Request, CancelLoad(h, r) PROVE NeverVerified(p)'
  <2> DEFINE me == [Idle EXCEPT !.pc = "releaseLoad", !.op = "cancel",
                                !.req = r, !.rload = requests[r],
                                !.rdoc = requests[r]]
  <2>1. me \in HandlerState
    BY <1>1, DocConstantsType DEF HandlerState, PC, HandlerOp
  <2>2. HoldsUnserved(me, p)
    BY <1>1, DispatchAssumption DEF HoldsUnserved, Idle
  <2>3. HoldsUnserved(Cancelling(me), p) /\ Cancelling(me) \in HandlerState
    BY <2>1, <2>2, CancellingUnserved, CancellingType
  <2>4. Goes(h, me) \/ Goes(h, Cancelling(me))
    BY <1>4 DEF CancelLoad
  <2> QED
    BY <1>4, <2>1, <2>2, <2>3, <2>4, UnservedQuiet DEF CancelLoad
<1>5. ASSUME NEW r \in Request, NEW to \in BreakdownStatus,
             UpdateStatusLoad(h, r, to)
      PROVE  NeverVerified(p)'
  <2> DEFINE doc == requests[r]
             local == [Idle EXCEPT
               !.pc = IF to = "COMPLETED" /\ doc.assignedProviderId # NoProvider
                        THEN "completeLoad" ELSE "saveRequest",
               !.op = "status", !.req = r, !.rload = doc,
               !.rdoc = StatusEdit(doc, to)]
  <2>1. Goes(h, local)
    BY <1>5 DEF UpdateStatusLoad
  <2>2. StatusEdit(doc, to).assignedProviderId = doc.assignedProviderId
    BY <1>1 DEF StatusEdit, RequestDoc
  <2>3. HoldsUnserved(local, p)
    <3> HIDE DEF doc
    <3>1. local.rdoc = StatusEdit(doc, to) /\ local.prov = NoProvider
      BY DEF Idle
    <3> QED
      BY <1>1, <2>2, <3>1, DispatchAssumption DEF HoldsUnserved, doc
  <2> QED
    BY <1>2, <1>5, <2>1, <2>3, UnservedQuiet DEF UpdateStatusLoad
<1>6. ASSUME NEW r \in Request, NEW q \in Provider, AssignLoad(h, r, q)
      PROVE  NeverVerified(p)'
  <2> DEFINE local == [Idle EXCEPT !.pc = "loadProvider", !.op = "assign",
                                   !.req = r, !.rload = requests[r],
                                   !.rdoc = requests[r], !.prov = q]
  <2>1. Goes(h, local) /\ HoldsUnserved(local, p)
    BY <1>1, <1>6 DEF AssignLoad, HoldsUnserved, Idle, OnboardedProvider
  <2> QED
    BY <1>2, <1>6, <2>1, UnservedQuiet DEF AssignLoad
<1>7. ASSUME NEW q \in Provider, NEW edited, ProfileEdit(h, q, edited),
             q = p => /\ edited.onlineStatus = "OFFLINE"
                      /\ edited.totalCompletedRequests = 0,
             UNCHANGED << requests, providers, everVerified >>
      PROVE  NeverVerified(p)'
  <2> DEFINE local == [Idle EXCEPT !.pc = "saveProvider", !.op = "profile",
                                   !.prov = q, !.pload = providers[q],
                                   !.pdoc = edited]
  <2>1. Goes(h, local) /\ HoldsUnserved(local, p)
    BY <1>7, DispatchAssumption DEF ProfileEdit, HoldsUnserved, Idle,
       AbsentRequest, NeverVerified, Unserved
  <2> QED
    BY <1>2, <1>7, <2>1, UnservedQuiet
<1>8. ASSUME NEW q \in Provider, NEW a \in AvailabilityStatus \cup { "UNSET" },
             NEW o \in OnlineStatus \cup { "UNSET" },
             AvailabilityLoad(h, q, a, o)
      PROVE  NeverVerified(p)'
  <2> DEFINE doc == providers[q]
             newOnline == IF o = "UNSET" THEN doc.onlineStatus ELSE o
             chosen == IF a = "UNSET" THEN doc.availabilityStatus ELSE a
             edited == [doc EXCEPT
               !.onlineStatus = newOnline,
               !.availabilityStatus =
                 IF newOnline = "ONLINE" /\ chosen = "OFFLINE"
                   THEN "AVAILABLE" ELSE chosen]
  <2>1. ProfileEdit(h, q, edited)
    BY <1>8 DEF AvailabilityLoad
  <2>2. q = p => o # "ONLINE"
    BY <1>8 DEF AvailabilityLoad, goingOnline, NeverVerified, Unserved
  <2>3. q = p => newOnline = "OFFLINE"
    BY <2>2 DEF NeverVerified, Unserved, OnlineStatus
  <2>4. q = p => /\ edited.onlineStatus = "OFFLINE"
                 /\ edited.totalCompletedRequests = 0
    <3> HIDE DEF newOnline, chosen
    <3> QED
      BY <1>1, <2>3 DEF ProviderDoc, NeverVerified, Unserved
  <2> QED
    BY <1>7, <1>8, <2>1, <2>4 DEF AvailabilityLoad
<1>9. ASSUME NEW q \in Provider, NEW k \in KycInput, KycLoad(h, q, k)
      PROVE  NeverVerified(p)'
  <2>1. q = p => /\ KycEdit(providers[q], k).onlineStatus = "OFFLINE"
                 /\ KycEdit(providers[q], k).totalCompletedRequests = 0
    BY <1>1 DEF KycEdit, ProviderDoc, NeverVerified, Unserved
  <2> QED
    BY <1>7, <1>9, <2>1 DEF KycLoad
<1> QED
  BY <1>3, <1>4, <1>5, <1>6, <1>8, <1>9 DEF Accept

LEMMA ContinueUnserved ==
  ASSUME TypeInv, NEW p \in Provider \ everVerified', NeverVerified(p),
         NEW h \in Handler, Continue(h) \/ Abort(h) \/ OneSaveFails(h)
  PROVE  NeverVerified(p)'
<1> DEFINE me == handler[h]
<1>1. /\ SlotOK(me) /\ me \in HandlerState /\ HoldsUnserved(me, p)
      /\ me.rdoc \in RequestDoc /\ me.pload \in ProviderDoc
      /\ \A q \in Provider : providers[q] \in ProviderDoc
      /\ providers \in [Provider -> ProviderDoc]
      /\ handler \in [Handler -> HandlerState]
      /\ handler' \in [Handler -> HandlerState]
      /\ Unserved(p)
  BY SlotFacts, ContinueTypeInv DEF NeverVerified, TypeInv, TypeOK
<1>2. ASSUME NEW local, Goes(h, local) PROVE local \in HandlerState
  BY <1>1, <1>2 DEF Goes
<1>3. Idle \in HandlerState /\ HoldsUnserved(Idle, p)
  BY DocConstantsType, IdleUnserved
<1>4. CASE CreateSaveSearching(h)
  <2>1. HoldsUnserved([me EXCEPT !.pc = "findNearest", !.rload = me.rdoc], p)
    BY <1>1 DEF HoldsUnserved, HandlerState
  <2> QED
    BY <1>1, <1>2, <1>4, <2>1, UnservedStoreRequest DEF CreateSaveSearching
<1>5. CASE FindNearest(h)
  <2>1. \A q \in EligibleProviders :
          HoldsUnserved(assignProviderToRequest(me, q, providers[q]), p)
    BY <1>1, AssignUnserved DEF EligibleProviders, Unserved
  <2> QED
    BY <1>2, <1>3, <1>5, <2>1, UnservedQuiet DEF FindNearest
<1>6. CASE AssignLoadProvider(h)
  <2> DEFINE doc == providers[me.prov]
             releasing == [me EXCEPT !.pc = "releaseLoad",
                                     !.pload = doc, !.pdoc = doc]
  <2>1. me.prov \in Provider /\ doc \in ProviderDoc
    BY <1>1, <1>6 DEF AssignLoadProvider, SlotOK, NamesProvider
  <2>2. HoldsUnserved(assignProviderToRequest(me, me.prov, doc), p)
    BY <1>1, <2>1, AssignUnserved DEF Unserved
  <2>3. HoldsUnserved(releasing, p)
    BY <1>1, <2>1 DEF HoldsUnserved, Unserved, HandlerState
  <2> QED
    BY <1>2, <1>6, <2>2, <2>3, UnservedQuiet DEF AssignLoadProvider
<1>7. ASSUME me.pc \in { "releaseLoad", "releaseSave" }
      PROVE  HoldsUnserved(AfterRelease(me), p)
  <2>1. me.op = "assign" => me.prov \in Provider
    BY <1>1, <1>7 DEF SlotOK, NamesProvider
  <2>2. me.prov = p => me.pload.kycStatus # "VERIFIED"
    BY <1>1 DEF HoldsUnserved
  <2> QED
    BY <1>1, <2>1, <2>2, AssignUnserved, CancellingUnserved DEF AfterRelease
<1>8. CASE ReleaseLoad(h)
  <2>1. HoldsUnserved([me EXCEPT !.pc = "releaseSave"], p)
    BY <1>1 DEF HoldsUnserved, HandlerState
  <2> QED
    BY <1>2, <1>7, <1>8, <2>1, UnservedQuiet DEF ReleaseLoad
<1>9. CASE ReleaseSave(h)
  <2>1. me.rdoc.assignedProviderId # p
    BY <1>1 DEF HoldsUnserved
  <2>2. providers'[p] = providers[p]
    BY <1>1, <1>9, <2>1 DEF ReleaseSave
  <2> QED
    BY <1>2, <1>7, <1>9, <2>2, UnservedStoreOther DEF ReleaseSave
<1>10. CASE AssignSaveRequest(h)
  <2>1. HoldsUnserved([me EXCEPT !.pc = "assignSaveProvider"], p)
    BY <1>1, <1>10 DEF HoldsUnserved, HandlerState, AssignSaveRequest
  <2> QED
    BY <1>2, <1>3, <1>10, <2>1, UnservedStoreRequest DEF AssignSaveRequest
<1>11. CASE AssignSaveProvider(h)
  <2>1. me.prov # p
    BY <1>1, <1>11 DEF HoldsUnserved, AssignSaveProvider
  <2>2. providers'[p] = providers[p]
    BY <1>1, <1>11, <2>1 DEF AssignSaveProvider, StoreProvider
  <2>3. HoldsUnserved([me EXCEPT !.pc = "assignSaveRequest"], p)
    BY <1>1, <2>1 DEF HoldsUnserved, HandlerState
  <2> QED
    BY <1>2, <1>3, <1>11, <2>2, <2>3, UnservedStoreOther DEF AssignSaveProvider
<1>12. CASE CompleteLoad(h)
  <2> DEFINE q == me.rdoc.assignedProviderId
             local == [me EXCEPT !.pc = "completeSave", !.prov = q,
                                 !.pload = providers[q],
                                 !.pdoc = JobDone(providers[q])]
  <2>1. q # p
    BY <1>1 DEF HoldsUnserved
  <2>2. HoldsUnserved(local, p)
    BY <1>1, <2>1 DEF HoldsUnserved, HandlerState
  <2>3. Goes(h, local)
    BY <1>12 DEF CompleteLoad
  <2> QED
    BY <1>2, <1>12, <2>2, <2>3, UnservedQuiet DEF CompleteLoad
<1>13. CASE CompleteSave(h)
  <2>1. me.prov # p
    BY <1>1, <1>13 DEF HoldsUnserved, CompleteSave
  <2>2. providers'[p] = providers[p]
    BY <1>1, <1>13, <2>1 DEF CompleteSave, StoreProvider
  <2>3. HoldsUnserved([me EXCEPT !.pc = "saveRequest", !.prov = NoProvider,
                                 !.pload = OnboardedProvider,
                                 !.pdoc = OnboardedProvider], p)
    BY <1>1, DispatchAssumption DEF HoldsUnserved, HandlerState
  <2> QED
    BY <1>2, <1>13, <2>2, <2>3, UnservedStoreOther DEF CompleteSave
<1>14. CASE SaveRequest(h)
  BY <1>3, <1>14, UnservedStoreRequest DEF SaveRequest
\* The save of a profile that was loaded and edited before: if it stored a
\* first VERIFIED, the provider is no longer unverified.
<1>15. CASE SaveProvider(h)
  <2>1. \A g \in Handler : HoldsUnserved(handler'[g], p)
    BY <1>3, <1>15, GoesSlot DEF SaveProvider, NeverVerified, TypeInv, TypeOK
  <2>2. CASE me.prov # p
    <3>1. providers'[p] = providers[p]
      BY <1>1, <1>15, <2>2 DEF SaveProvider, StoreProvider
    <3> QED
      BY <1>3, <1>15, <3>1, UnservedStoreOther DEF SaveProvider
  <2>3. CASE me.prov = p
    <3>1. providers'[p] = SavedProvider(providers[p], me.pload, me.pdoc)
      BY <1>1, <1>15, <2>3 DEF SaveProvider, StoreProvider
    <3>2. providers'[p].kycStatus # "VERIFIED"
      BY <1>15, <2>3 DEF SaveProvider
    <3>3. /\ providers'[p].onlineStatus = "OFFLINE"
          /\ providers'[p].totalCompletedRequests = 0
      BY <1>1, <2>3, <3>1 DEF SavedProvider, Written, HoldsUnserved, Unserved
    <3> QED
      BY <1>1, <1>15, <2>1, <3>2, <3>3 DEF SaveProvider, NeverVerified, Unserved
  <2> QED
    BY <2>2, <2>3
<1>16. CASE Abort(h)
  BY <1>3, <1>16, UnservedQuiet DEF Abort
<1>17. CASE OneSaveFails(h)
  <2>1. PICK left \in { "assignSaveRequest", "assignSaveProvider" } :
          Goes(h, [me EXCEPT !.pc = left])
    BY <1>17 DEF OneSaveFails
  <2> DEFINE local == [me EXCEPT !.pc = left]
  <2>2. HoldsUnserved(local, p)
    <3>1. local.rdoc = me.rdoc /\ local.prov = me.prov
      BY <1>1 DEF HandlerState
    <3>2. me.pc = "assignSaveBoth"
      BY <1>17 DEF OneSaveFails
    <3> HIDE DEF local
    <3> QED
      BY <1>1, <3>1, <3>2 DEF HoldsUnserved
  <2> HIDE DEF local
  <2> QED
    BY <1>2, <1>17, <2>1, <2>2, UnservedQuiet DEF OneSaveFails, local
<1> QED
  BY <1>4, <1>5, <1>6, <1>8, <1>9, <1>10, <1>11, <1>12, <1>13, <1>14, <1>15,
     <1>16, <1>17
  DEF Continue

\* Who has been verified once stays in the record.
LEMMA EverVerifiedGrows ==
  ASSUME NEW h \in Handler,
         Accept(h) \/ Continue(h) \/ Abort(h) \/ OneSaveFails(h)
  PROVE  everVerified \subseteq everVerified'
BY DEF Accept, Continue, Abort, OneSaveFails, CreateInsert, CancelLoad,
   UpdateStatusLoad, AssignLoad, AvailabilityLoad, KycLoad,
   CreateSaveSearching, FindNearest, AssignLoadProvider, ReleaseLoad,
   ReleaseSave, AssignSaveRequest, AssignSaveProvider, CompleteLoad,
   CompleteSave, SaveRequest, SaveProvider

LEMMA ReviewInvInductive ==
  /\ Init => ReviewInv
  /\ ReviewInv /\ [Next]_vars => ReviewInv'
<1>1. ASSUME Init PROVE ReviewInv
  <2> SUFFICES ASSUME NEW p \in Provider \ everVerified PROVE NeverVerified(p)
    BY <1>1, InitTypeInv DEF ReviewInv
  <2>1. Unserved(p)
    BY <1>1, DispatchAssumption DEF Init, Unserved, OnboardedProvider,
       AbsentRequest
  <2> QED
    BY <1>1, <2>1, IdleUnserved DEF Init, NeverVerified
<1>2. ASSUME ReviewInv, UNCHANGED vars PROVE ReviewInv'
  <2>1. TypeInv'
    BY <1>2, NextTypeInv DEF ReviewInv
  <2> QED
    BY <1>2, <2>1 DEF ReviewInv, NeverVerified, Unserved, vars
<1>3. ASSUME ReviewInv, Next PROVE ReviewInv'
  <2>1. TypeInv'
    BY <1>3, NextTypeInv DEF ReviewInv
  <2>2. PICK h \in Handler :
          Accept(h) \/ Continue(h) \/ Abort(h) \/ OneSaveFails(h)
    BY <1>3 DEF Next
  <2> SUFFICES ASSUME NEW p \in Provider \ everVerified' PROVE NeverVerified(p)'
    BY <2>1 DEF ReviewInv
  <2>3. p \notin everVerified /\ NeverVerified(p) /\ TypeInv
    BY <1>3, <2>2, EverVerifiedGrows DEF ReviewInv
  <2> QED
    BY <2>2, <2>3, AcceptUnserved, ContinueUnserved
<1> QED
  BY <1>1, <1>2, <1>3

\* However the handlers that read a KYC status are delayed, a provider whose
\* VERIFIED was never stored is never online, named or credited.
THEOREM NoServiceWithoutReview == Spec => []NoServiceBeforeFirstVerification
<1>1. ReviewInv => NoServiceBeforeFirstVerification
  BY DEF ReviewInv, NeverVerified, Unserved, NoServiceBeforeFirstVerification
<1> QED
  BY <1>1, ReviewInvInductive, PTL DEF Spec

-----------------------------------------------------------------------------
(***************************************************************************)
(* Dispatch implements RequestLifecycle when no two handlers work on the   *)
(* same request at once: for any number of requests, providers and         *)
(* handlers, and with any faults, each step of the engine is a step of the *)
(* life cycle of one request, or leaves all statuses alone.                *)
(***************************************************************************)
OneHandler == \A g, h \in Handler : g = h

\* Callers keep off each other's requests, or handlers run one at a time.
Apart == ~ Overlap \/ OneHandler

\* The statuses that assignProvider and createRequest dispatch from.
Waiting == { "CREATED", "SEARCHING_PROVIDER" }

\* The changes of status that RequestLifecycle allows.
Edge(from, to) ==
  \/ from # "ABSENT" /\ to \in BreakdownStatus /\ canTransition(from, to)
  \/ from \in Waiting /\ to = "PROVIDER_ASSIGNED"

(***************************************************************************)
(* The invariant.  A handler checks the table against the status it loaded *)
(* and saves several awaits later.  The save is legal because the handler  *)
(* holds an edge of the table (Legal), what it loaded is what is stored    *)
(* (Fresh), and nobody else works on the request (OwnRequests).  After the *)
(* request's own save the handler may still have a provider to save: it    *)
(* then holds an outdated request, which it will not write again.          *)
(***************************************************************************)
Legal(local) ==
  /\ local.pc = "saveSearching" => local.rdoc.status = "SEARCHING_PROVIDER"
  /\ local.pc \in { "findNearest", "loadProvider" } =>
       local.rdoc.status = local.rload.status /\ local.rload.status \in Waiting
  /\ local.pc \in { "releaseLoad", "releaseSave" } =>
       /\ local.rdoc.status = local.rload.status
       /\ IF local.op = "assign" THEN local.rload.status \in Waiting
                                 ELSE Edge(local.rload.status, "CANCELLED")
  /\ local.pc \in { "saveSearching", "assignSaveBoth", "assignSaveRequest",
                    "completeLoad", "completeSave", "saveRequest" } =>
       Edge(local.rload.status, local.rdoc.status)

Fresh(local, docs) ==
  local.req \in Request /\ local.pc # "assignSaveProvider" =>
    local.rload.status = docs[local.req].status

OwnRequests ==
  \A g, h \in Handler :
    g # h /\ handler[g].req = handler[h].req => handler[g].req \notin Request

SerialInv ==
  /\ TypeInv
  /\ OwnRequests
  /\ \A h \in Handler : Legal(handler[h]) /\ Fresh(handler[h], requests)

LEMMA IdleSerial ==
  /\ Legal(Idle)
  /\ \A docs : Fresh(Idle, docs)
  /\ Idle.req \notin Request
BY DispatchAssumption DEF Legal, Fresh, Idle

\* A provider is put on a request that waits for one, or the handler ends.
LEMMA AssignSerial ==
  ASSUME NEW me \in HandlerState, me.rload.status \in Waiting,
         NEW docs, Fresh(me, docs), me.pc # "assignSaveProvider",
         NEW p \in Provider, NEW doc \in ProviderDoc
  PROVE  LET local == assignProviderToRequest(me, p, doc) IN
         /\ Legal(local) /\ Fresh(local, docs)
         /\ local.req = me.req \/ local.req \notin Request
<1>1. CASE mayBeAssigned(doc)
  <2> DEFINE local == assignProviderToRequest(me, p, doc)
  <2>1. /\ local.pc = "assignSaveBoth" /\ local.req = me.req
        /\ local.rload = me.rload /\ local.rdoc.status = "PROVIDER_ASSIGNED"
    BY <1>1 DEF assignProviderToRequest, HandlerState, RequestDoc
  <2> HIDE DEF local
  <2> QED
    BY <2>1 DEF local, Legal, Fresh, Edge
<1>2. CASE ~ mayBeAssigned(doc)
  BY <1>2, IdleSerial DEF assignProviderToRequest
<1> QED
  BY <1>1, <1>2

LEMMA CancellingSerial ==
  ASSUME NEW me \in HandlerState, Edge(me.rload.status, "CANCELLED"),
         NEW docs, Fresh(me, docs), me.pc # "assignSaveProvider"
  PROVE  /\ Legal(Cancelling(me)) /\ Fresh(Cancelling(me), docs)
         /\ Cancelling(me).req = me.req
<1> DEFINE local == Cancelling(me)
<1>1. /\ local.pc = "saveRequest" /\ local.req = me.req
      /\ local.rload = me.rload /\ local.rdoc.status = "CANCELLED"
  BY DEF Cancelling, HandlerState, RequestDoc
<1> HIDE DEF local
<1> QED
  BY <1>1 DEF local, Legal, Fresh

LEMMA AfterReleaseSerial ==
  ASSUME NEW me \in HandlerState, Legal(me), NEW docs, Fresh(me, docs),
         me.pc \in { "releaseLoad", "releaseSave" },
         me.op = "assign" => me.prov \in Provider
  PROVE  /\ Legal(AfterRelease(me)) /\ Fresh(AfterRelease(me), docs)
         /\ AfterRelease(me).req = me.req \/ AfterRelease(me).req \notin Request
<1>1. me.pload \in ProviderDoc
  BY DEF HandlerState
<1>2. CASE me.op = "assign"
  BY <1>1, <1>2, AssignSerial DEF AfterRelease, Legal
<1>3. CASE me.op # "assign"
  BY <1>3, CancellingSerial DEF AfterRelease, Legal
<1> QED
  BY <1>2, <1>3

\* A step fills its own slot properly, works on a request that was its own or
\* nobody's, and touches no other request.
LEMMA SerialStep ==
  ASSUME SerialInv, NEW h \in Handler, NEW local \in HandlerState,
         Goes(h, local), Legal(local), Fresh(local, requests'),
         \/ local.req = handler[h].req
         \/ local.req \notin Request
         \/ \A g \in Handler : handler[g].req # local.req
         \/ OneHandler,
         \A r \in Request :
           r # handler[h].req /\ r # local.req => requests'[r] = requests[r]
  PROVE  OwnRequests' /\ \A g \in Handler :
                           Legal(handler'[g]) /\ Fresh(handler'[g], requests')
<1>1. /\ handler'[h] = local
      /\ \A g \in Handler : g # h => handler'[g] = handler[g]
  BY GoesSlot DEF SerialInv, TypeInv, TypeOK
<1>2. OwnRequests'
  <2> SUFFICES ASSUME NEW f \in Handler, NEW g \in Handler, f # g,
                      handler'[f].req = handler'[g].req
               PROVE  handler'[f].req \notin Request
    BY DEF OwnRequests
  <2> QED
    BY <1>1 DEF SerialInv, OwnRequests, OneHandler
<1>3. ASSUME NEW g \in Handler, g # h
      PROVE  Legal(handler'[g]) /\ Fresh(handler'[g], requests')
  <2>1. ASSUME handler[g].req \in Request
        PROVE  requests'[handler[g].req] = requests[handler[g].req]
    BY <1>3, <2>1 DEF SerialInv, OwnRequests, OneHandler
  <2> QED
    BY <1>1, <1>3, <2>1 DEF SerialInv, Fresh
<1> QED
  BY <1>1, <1>2, <1>3

\* A handler may start on r only when no other one has it.
LEMMA AcceptSerial ==
  ASSUME Apart, SerialInv, NEW h \in Handler, Accept(h)
  PROVE  OwnRequests' /\ \A g \in Handler :
                           Legal(handler'[g]) /\ Fresh(handler'[g], requests')
<1>1. /\ \A r \in Request : requests[r] \in RequestDoc
      /\ requests \in [Request -> RequestDoc]
      /\ handler \in [Handler -> HandlerState]
      /\ handler' \in [Handler -> HandlerState]
  BY AcceptTypeInv, SlotFacts DEF SerialInv, TypeInv, TypeOK
<1>2. ASSUME NEW local, Goes(h, local) PROVE local \in HandlerState
  BY <1>1, <1>2 DEF Goes
<1>3. ASSUME NEW r \in Request, CreateInsert(h, r)
      PROVE  OwnRequests' /\ \A g \in Handler :
                               Legal(handler'[g]) /\ Fresh(handler'[g], requests')
  <2> DEFINE searching == [NewRequest EXCEPT !.status = "SEARCHING_PROVIDER"]
             local == [Idle EXCEPT !.pc = "saveSearching", !.op = "create",
                                   !.req = r, !.rload = NewRequest,
                                   !.rdoc = searching]
  <2>1. Goes(h, local)
    BY <1>3 DEF CreateInsert
  <2>2. /\ local.pc = "saveSearching" /\ local.req = r
        /\ local.rload = NewRequest /\ local.rdoc = searching
    <3> HIDE DEF searching
    <3> QED
      BY DEF Idle
  <2>3. NewRequest.status = "CREATED" /\ searching.status = "SEARCHING_PROVIDER"
    BY DEF NewRequest, AbsentRequest
  <2>4. Edge("CREATED", "SEARCHING_PROVIDER")
    BY DEF Edge, canTransition, ALLOWED_TRANSITIONS, BreakdownStatus
  <2>5. /\ requests'[r] = NewRequest
        /\ \A x \in Request : x # r => requests'[x] = requests[x]
        /\ OneHandler \/ \A g \in Handler : handler[g].req # r
    BY <1>1, <1>3 DEF CreateInsert, Accepts, Apart
  <2> HIDE DEF local, searching
  <2>6. Legal(local) /\ Fresh(local, requests')
    BY <2>2, <2>3, <2>4, <2>5 DEF Legal, Fresh
  <2> QED
    BY <1>2, <2>1, <2>2, <2>5, <2>6, SerialStep
\* The other handlers that work on a request load it, and write nothing yet.
<1>4. ASSUME NEW r \in Request, NEW local, Goes(h, local), Accepts(h, r),
             UNCHANGED requests, Legal(local), local.req = r,
             local.rload = requests[r]
      PROVE  OwnRequests' /\ \A g \in Handler :
                               Legal(handler'[g]) /\ Fresh(handler'[g], requests')
  <2>1. OneHandler \/ \A g \in Handler : handler[g].req # local.req
    BY <1>4 DEF Accepts, Apart
  <2>2. Fresh(local, requests')
    BY <1>4 DEF Fresh
  <2> QED
    BY <1>2, <1>4, <2>1, <2>2, SerialStep
<1>5. ASSUME NEW r \in Request, CancelLoad(h, r)
      PROVE  OwnRequests' /\ \A g \in Handler :
                               Legal(handler'[g]) /\ Fresh(handler'[g], requests')
  <2> DEFINE me == [Idle EXCEPT !.pc = "releaseLoad", !.op = "cancel",
                                !.req = r, !.rload = requests[r],
                                !.rdoc = requests[r]]
  <2>1. me \in HandlerState
    BY <1>1, DocConstantsType DEF HandlerState, PC, HandlerOp
  <2>2. Edge(me.rload.status, "CANCELLED")
    BY <1>5 DEF CancelLoad, Edge, BreakdownStatus, Idle
  <2>3. Legal(me)
    BY <2>2 DEF Legal, Idle
  <2>4. /\ Legal(Cancelling(me)) /\ Cancelling(me).req = r
        /\ Cancelling(me).rload = requests[r]
    <3>1. Fresh(me, requests) /\ me.pc # "assignSaveProvider" /\ me.req = r
      BY DEF Fresh, Idle
    <3>2. Cancelling(me).rload = requests[r]
      BY <2>1 DEF Cancelling, HandlerState, Idle
    <3> QED
      BY <2>1, <2>2, <3>1, <3>2, CancellingSerial
  <2>5. Goes(h, me) \/ Goes(h, Cancelling(me))
    BY <1>5 DEF CancelLoad
  <2>6. me.req = r /\ me.rload = requests[r]
    BY DEF Idle
  <2> HIDE DEF me
  <2> QED
    BY <1>4, <1>5, <2>3, <2>4, <2>5, <2>6 DEF CancelLoad
<1>6. ASSUME NEW r \in Request, NEW to \in BreakdownStatus,
             UpdateStatusLoad(h, r, to)
      PROVE  OwnRequests' /\ \A g \in Handler :
                               Legal(handler'[g]) /\ Fresh(handler'[g], requests')
  <2> DEFINE doc == requests[r]
             edited == StatusEdit(doc, to)
             local == [Idle EXCEPT
               !.pc = IF to = "COMPLETED" /\ doc.assignedProviderId # NoProvider
                        THEN "completeLoad" ELSE "saveRequest",
               !.op = "status", !.req = r, !.rload = doc, !.rdoc = edited]
  <2>1. Goes(h, local) /\ UNCHANGED requests /\ Accepts(h, r)
    BY <1>6 DEF UpdateStatusLoad
  <2>2. edited.status = to
    BY <1>1 DEF StatusEdit, RequestDoc
  <2>3. Edge(doc.status, to)
    BY <1>6 DEF UpdateStatusLoad, Edge
  <2>4. /\ local.pc \in { "completeLoad", "saveRequest" }
        /\ local.req = r /\ local.rload = doc /\ local.rdoc = edited
    <3> HIDE DEF edited
    <3> QED
      BY DEF Idle
  <2> HIDE DEF local, edited
  <2>5. Legal(local)
    BY <2>2, <2>3, <2>4 DEF Legal
  <2> QED
    BY <1>4, <2>1, <2>4, <2>5
<1>7. ASSUME NEW r \in Request, NEW p \in Provider, AssignLoad(h, r, p)
      PROVE  OwnRequests' /\ \A g \in Handler :
                               Legal(handler'[g]) /\ Fresh(handler'[g], requests')
  <2> DEFINE local == [Idle EXCEPT !.pc = "loadProvider", !.op = "assign",
                                   !.req = r, !.rload = requests[r],
                                   !.rdoc = requests[r], !.prov = p]
  <2>1. /\ local.pc = "loadProvider" /\ local.req = r
        /\ local.rload = requests[r] /\ local.rdoc = requests[r]
    BY DEF Idle
  <2>2. requests[r].status \in Waiting
    BY <1>7 DEF AssignLoad, AwaitsProvider, Waiting
  <2>3. Goes(h, local) /\ UNCHANGED requests /\ Accepts(h, r)
    BY <1>7 DEF AssignLoad
  <2> HIDE DEF local
  <2>4. Legal(local)
    BY <2>1, <2>2 DEF Legal
  <2> QED
    BY <1>4, <2>1, <2>3, <2>4
<1>8. ASSUME NEW p \in Provider, NEW edited, ProfileEdit(h, p, edited),
             UNCHANGED requests
      PROVE  OwnRequests' /\ \A g \in Handler :
                               Legal(handler'[g]) /\ Fresh(handler'[g], requests')
  <2> DEFINE local == [Idle EXCEPT !.pc = "saveProvider", !.op = "profile",
                                   !.prov = p, !.pload = providers[p],
                                   !.pdoc = edited]
  <2>1. local.pc = "saveProvider" /\ local.req \notin Request
    BY DispatchAssumption DEF Idle
  <2>2. Goes(h, local)
    BY <1>8 DEF ProfileEdit
  <2> HIDE DEF local
  <2>3. Legal(local) /\ Fresh(local, requests')
    BY <2>1 DEF Legal, Fresh
  <2> QED
    BY <1>2, <1>8, <2>1, <2>2, <2>3, SerialStep
<1> QED
  BY <1>3, <1>5, <1>6, <1>7, <1>8 DEF Accept, AvailabilityLoad, KycLoad

\* What the step of a handler that is at work does to the slot.
LEMMA ContinueSerial ==
  ASSUME SerialInv, NEW h \in Handler,
         Continue(h) \/ Abort(h) \/ OneSaveFails(h)
  PROVE  OwnRequests' /\ \A g \in Handler :
                           Legal(handler'[g]) /\ Fresh(handler'[g], requests')
<1> DEFINE me == handler[h]
           Kept == OwnRequests' /\ \A g \in Handler :
                     Legal(handler'[g]) /\ Fresh(handler'[g], requests')
<1>1. /\ SlotOK(me) /\ me \in HandlerState
      /\ Legal(me) /\ Fresh(me, requests)
      /\ me.rdoc \in RequestDoc /\ me.pload \in ProviderDoc
      /\ \A q \in Provider : providers[q] \in ProviderDoc
      /\ requests \in [Request -> RequestDoc]
      /\ handler \in [Handler -> HandlerState]
      /\ handler' \in [Handler -> HandlerState]
  BY SlotFacts, ContinueTypeInv DEF SerialInv, TypeInv, TypeOK
<1>2. ASSUME NEW local, Goes(h, local) PROVE local \in HandlerState
  BY <1>1, <1>2 DEF Goes
<1>3. ASSUME NEW local, Goes(h, local), UNCHANGED requests,
             Legal(local), Fresh(local, requests),
             local.req = me.req \/ local.req \notin Request
      PROVE  Kept
  BY <1>2, <1>3, SerialStep
<1>4. ASSUME Goes(h, Idle), UNCHANGED requests \/ StoreRequest(h)
      PROVE  Kept
  <2>1. \A r \in Request : r # me.req => requests'[r] = requests[r]
    BY <1>1, <1>4 DEF StoreRequest
  <2> QED
    BY <1>2, <1>4, <2>1, IdleSerial, SerialStep
\* A save writes the status that the handler edited: it was the stored one
\* that it loaded.
<1>5. ASSUME StoreRequest(h), me.req \in Request, me.pc # "assignSaveProvider"
      PROVE  requests'[me.req].status = me.rdoc.status
  BY <1>1, <1>5 DEF StoreRequest, SavedRequest, Written, Fresh
<1>6. CASE CreateSaveSearching(h)
  <2> DEFINE local == [me EXCEPT !.pc = "findNearest", !.rload = me.rdoc]
  <2>1. /\ local.pc = "findNearest" /\ local.req = me.req
        /\ local.rload = me.rdoc /\ local.rdoc = me.rdoc
    BY <1>1 DEF HandlerState
  <2>2. Goes(h, local) /\ StoreRequest(h) /\ me.pc = "saveSearching"
    BY <1>6 DEF CreateSaveSearching
  <2> HIDE DEF local
  <2>3. Legal(local)
    BY <1>1, <2>1, <2>2 DEF Legal, Waiting
  <2>4. Fresh(local, requests')
    BY <1>5, <2>1, <2>2 DEF Fresh
  <2>5. \A r \in Request : r # me.req => requests'[r] = requests[r]
    BY <1>1, <2>2 DEF StoreRequest
  <2> QED
    BY <1>2, <2>1, <2>2, <2>3, <2>4, <2>5, SerialStep
<1>7. CASE FindNearest(h)
  <2>1. \A q \in EligibleProviders :
          LET local == assignProviderToRequest(me, q, providers[q]) IN
          /\ Legal(local) /\ Fresh(local, requests)
          /\ local.req = me.req \/ local.req \notin Request
    BY <1>1, <1>7, AssignSerial DEF EligibleProviders, FindNearest, Legal
  <2> QED
    BY <1>3, <1>4, <1>7, <2>1 DEF FindNearest
<1>8. CASE AssignLoadProvider(h)
  <2> DEFINE doc == providers[me.prov]
             releasing == [me EXCEPT !.pc = "releaseLoad",
                                     !.pload = doc, !.pdoc = doc]
  <2>1. me.prov \in Provider /\ doc \in ProviderDoc /\ me.pc = "loadProvider"
    BY <1>1, <1>8 DEF AssignLoadProvider, SlotOK, NamesProvider
  <2>2. LET local == assignProviderToRequest(me, me.prov, doc) IN
        /\ Legal(local) /\ Fresh(local, requests)
        /\ local.req = me.req \/ local.req \notin Request
    BY <1>1, <2>1, AssignSerial DEF Legal
  <2>3. Legal(releasing) /\ Fresh(releasing, requests) /\ releasing.req = me.req
    <3>1. /\ releasing.pc = "releaseLoad" /\ releasing.req = me.req
          /\ releasing.rload = me.rload /\ releasing.rdoc = me.rdoc
      BY <1>1 DEF HandlerState
    <3>2. me.rload.status \in Waiting => Edge(me.rload.status, "CANCELLED")
      BY DEF Waiting, Edge, canTransition, ALLOWED_TRANSITIONS, BreakdownStatus
    <3> HIDE DEF releasing
    <3> QED
      BY <1>1, <2>1, <3>1, <3>2 DEF Legal, Fresh
  <2> QED
    BY <1>3, <1>8, <2>2, <2>3 DEF AssignLoadProvider
<1>9. ASSUME me.pc \in { "releaseLoad", "releaseSave" }
      PROVE  LET local == AfterRelease(me) IN
             /\ Legal(local) /\ Fresh(local, requests)
             /\ local.req = me.req \/ local.req \notin Request
  <2>1. me.op = "assign" => me.prov \in Provider
    BY <1>1, <1>9 DEF SlotOK, NamesProvider
  <2> QED
    BY <1>1, <1>9, <2>1, AfterReleaseSerial
<1>10. CASE ReleaseLoad(h)
  <2> DEFINE local == [me EXCEPT !.pc = "releaseSave"]
  <2>1. /\ local.pc = "releaseSave" /\ local.req = me.req /\ local.op = me.op
        /\ local.rload = me.rload /\ local.rdoc = me.rdoc
    BY <1>1 DEF HandlerState
  <2> HIDE DEF local
  <2>2. me.pc = "releaseLoad" => Legal(local) /\ Fresh(local, requests)
    BY <1>1, <2>1 DEF Legal, Fresh
  <2> QED
    BY <1>3, <1>9, <1>10, <2>1, <2>2 DEF ReleaseLoad, local
<1>11. CASE ReleaseSave(h)
  BY <1>3, <1>9, <1>11 DEF ReleaseSave
<1>12. CASE AssignSaveRequest(h)
  <2> DEFINE local == [me EXCEPT !.pc = "assignSaveProvider"]
  <2>1. local.pc = "assignSaveProvider" /\ local.req = me.req
    BY <1>1 DEF HandlerState
  <2>2. StoreRequest(h) /\ (Goes(h, local) \/ Goes(h, Idle))
    BY <1>12 DEF AssignSaveRequest
  <2>3. \A r \in Request : r # me.req => requests'[r] = requests[r]
    BY <1>1, <2>2 DEF StoreRequest
  <2> HIDE DEF local
  <2>4. Legal(local) /\ Fresh(local, requests')
    BY <2>1 DEF Legal, Fresh
  <2> QED
    BY <1>2, <1>4, <2>1, <2>2, <2>3, <2>4, SerialStep
<1>13. CASE AssignSaveProvider(h)
  <2> DEFINE local == [me EXCEPT !.pc = "assignSaveRequest"]
  <2>1. /\ local.pc = "assignSaveRequest" /\ local.req = me.req
        /\ local.rload = me.rload /\ local.rdoc = me.rdoc
    BY <1>1 DEF HandlerState
  <2>2. UNCHANGED requests /\ ( \/ Goes(h, local) /\ me.pc = "assignSaveBoth"
                                \/ Goes(h, Idle) )
    BY <1>13 DEF AssignSaveProvider
  <2> HIDE DEF local
  <2>3. me.pc = "assignSaveBoth" => Legal(local) /\ Fresh(local, requests)
    BY <1>1, <2>1 DEF Legal, Fresh
  <2> QED
    BY <1>3, <1>4, <2>1, <2>2, <2>3
<1>14. CASE CompleteLoad(h)
  <2> DEFINE p == me.rdoc.assignedProviderId
             doc == providers[p]
             edited == JobDone(doc)
             local == [me EXCEPT !.pc = "completeSave", !.prov = p,
                                 !.pload = doc, !.pdoc = edited]
  <2> HIDE DEF p, doc, edited
  <2>1. /\ local.pc = "completeSave" /\ local.req = me.req
        /\ local.rload = me.rload /\ local.rdoc = me.rdoc
    BY <1>1 DEF HandlerState
  <2>2. Goes(h, local) /\ me.pc = "completeLoad" /\ UNCHANGED requests
    BY <1>14 DEF CompleteLoad, p, doc, edited
  <2> HIDE DEF local
  <2>3. Legal(local) /\ Fresh(local, requests)
    BY <1>1, <2>1, <2>2 DEF Legal, Fresh
  <2> QED
    BY <1>3, <2>1, <2>2, <2>3
<1>15. CASE CompleteSave(h)
  <2> DEFINE local == [me EXCEPT !.pc = "saveRequest", !.prov = NoProvider,
                                 !.pload = OnboardedProvider,
                                 !.pdoc = OnboardedProvider]
  <2>1. /\ local.pc = "saveRequest" /\ local.req = me.req
        /\ local.rload = me.rload /\ local.rdoc = me.rdoc
    BY <1>1 DEF HandlerState
  <2>2. Goes(h, local) /\ me.pc = "completeSave" /\ UNCHANGED requests
    BY <1>15 DEF CompleteSave
  <2> HIDE DEF local
  <2>3. Legal(local) /\ Fresh(local, requests)
    BY <1>1, <2>1, <2>2 DEF Legal, Fresh
  <2> QED
    BY <1>3, <2>1, <2>2, <2>3
<1>16. CASE SaveRequest(h) \/ SaveProvider(h) \/ Abort(h)
  BY <1>4, <1>16 DEF SaveRequest, SaveProvider, Abort
<1>17. CASE OneSaveFails(h)
  <2>1. PICK left \in { "assignSaveRequest", "assignSaveProvider" } :
          Goes(h, [me EXCEPT !.pc = left])
    BY <1>17 DEF OneSaveFails
  <2> DEFINE local == [me EXCEPT !.pc = left]
  <2>2. /\ local.pc = left /\ local.req = me.req
        /\ local.rload = me.rload /\ local.rdoc = me.rdoc
    BY <1>1 DEF HandlerState
  <2>3. Goes(h, local) /\ me.pc = "assignSaveBoth" /\ UNCHANGED requests
    BY <1>17, <2>1 DEF OneSaveFails
  <2> HIDE DEF local
  <2>4. Legal(local) /\ Fresh(local, requests)
    BY <1>1, <2>2, <2>3 DEF Legal, Fresh
  <2> QED
    BY <1>3, <2>2, <2>3, <2>4
<1> QED
  BY <1>6, <1>7, <1>8, <1>10, <1>11, <1>12, <1>13, <1>14, <1>15, <1>16, <1>17
  DEF Continue

LEMMA SerialInvInductive ==
  ASSUME Apart
  PROVE  /\ Init => SerialInv
         /\ SerialInv /\ [Next]_vars => SerialInv'
<1>1. ASSUME Init PROVE SerialInv
  <2>1. \A h \in Handler : handler[h] = Idle
    BY <1>1 DEF Init
  <2> QED
    BY <1>1, <2>1, InitTypeInv, IdleSerial DEF SerialInv, OwnRequests
<1>2. ASSUME SerialInv, [Next]_vars PROVE SerialInv'
  <2>1. TypeInv'
    BY <1>2, NextTypeInv DEF SerialInv
  <2>2. CASE UNCHANGED vars
    BY <1>2, <2>1, <2>2 DEF SerialInv, OwnRequests, vars
  <2>3. CASE Next
    BY <1>2, <2>1, <2>3, AcceptSerial, ContinueSerial DEF Next, SerialInv
  <2> QED
    BY <1>2, <2>2, <2>3
<1> QED
  BY <1>1, <1>2

-----------------------------------------------------------------------------
(***************************************************************************)
(* The refinement.                                                         *)
(***************************************************************************)

\* RequestLifecycle speaks of the table that the handlers consult.
LEMMA SameTable ==
  /\ Lifecycle!BreakdownStatus = BreakdownStatus
  /\ \A from, to : Lifecycle!canTransition(from, to) <=> canTransition(from, to)
BY DEF BreakdownStatus, Lifecycle!BreakdownStatus, canTransition,
   Lifecycle!canTransition, ALLOWED_TRANSITIONS, Lifecycle!ALLOWED_TRANSITIONS

\* One request's status changes along an edge.
LEMMA EdgeStep ==
  ASSUME requests \in [Request -> RequestDoc], NEW r \in Request,
         NEW doc \in RequestDoc, requests' = [requests EXCEPT ![r] = doc],
         Edge(requests[r].status, doc.status)
  PROVE  Lifecycle!Next
<1>1. [x \in Request |-> requests'[x].status] =
        [[x \in Request |-> requests[x].status] EXCEPT ![r] = doc.status]
  OBVIOUS
<1>2. Lifecycle!Advance(r) \/ Lifecycle!Dispatched(r)
  BY <1>1, SameTable DEF Edge, Waiting, Lifecycle!Advance, Lifecycle!Dispatched
<1> QED
  BY <1>2 DEF Lifecycle!Next

\* Each save of a handler is an edge.
LEMMA StoreIsEdge ==
  ASSUME SerialInv, NEW h \in Handler, StoreRequest(h),
         handler[h].pc \in { "saveSearching", "assignSaveBoth",
                             "assignSaveRequest", "saveRequest" }
  PROVE  Lifecycle!Next \/ UNCHANGED requests
<1> DEFINE me == handler[h]
           saved == SavedRequest(requests[me.req], me.rload, me.rdoc)
<1>1. /\ requests \in [Request -> RequestDoc]
      /\ me.rload \in RequestDoc /\ me.rdoc \in RequestDoc
      /\ Legal(me) /\ Fresh(me, requests)
  BY SlotFacts DEF SerialInv, TypeInv, TypeOK
<1>2. requests' = [requests EXCEPT ![me.req] = saved]
  BY DEF StoreRequest
<1>3. CASE me.req \in Request
  <2>1. saved \in RequestDoc
    BY <1>1, <1>3, SavedRequestType
  <2>2. saved.status = me.rdoc.status
    BY <1>1, <1>3 DEF SavedRequest, Written, Fresh
  <2>3. Edge(requests[me.req].status, saved.status)
    BY <1>1, <1>3, <2>2 DEF Legal, Fresh
  <2> QED
    BY <1>1, <1>2, <1>3, <2>1, <2>3, EdgeStep
<1>4. CASE me.req \notin Request
  BY <1>1, <1>2, <1>4
<1> QED
  BY <1>3, <1>4

LEMMA StepIsLifecycle ==
  ASSUME SerialInv, [Next]_vars
  PROVE  Lifecycle!Next \/ UNCHANGED [r \in Request |-> requests[r].status]
<1>1. UNCHANGED requests => UNCHANGED [r \in Request |-> requests[r].status]
  OBVIOUS
<1>2. ASSUME NEW h \in Handler, NEW r \in Request, CreateInsert(h, r)
      PROVE  Lifecycle!Next
  <2>1. /\ requests \in [Request -> RequestDoc]
        /\ requests[r].status = "ABSENT" /\ NewRequest.status = "CREATED"
        /\ requests' = [requests EXCEPT ![r] = NewRequest]
    BY <1>2 DEF CreateInsert, NewRequest, AbsentRequest, SerialInv, TypeInv, TypeOK
  <2>2. [x \in Request |-> requests'[x].status] =
          [[x \in Request |-> requests[x].status] EXCEPT ![r] = "CREATED"]
    BY <2>1
  <2> QED
    BY <2>1, <2>2 DEF Lifecycle!Create, Lifecycle!Next
<1>3. ASSUME NEW h \in Handler, Accept(h)
      PROVE  UNCHANGED requests \/ \E r \in Request : CreateInsert(h, r)
  BY <1>3 DEF Accept, CancelLoad, UpdateStatusLoad, AssignLoad,
     AvailabilityLoad, KycLoad
<1>4. ASSUME NEW h \in Handler, Continue(h)
      PROVE  \/ UNCHANGED requests
             \/ /\ StoreRequest(h)
                /\ handler[h].pc \in { "saveSearching", "assignSaveBoth",
                                        "assignSaveRequest", "saveRequest" }
  BY <1>4 DEF Continue, CreateSaveSearching, FindNearest, AssignLoadProvider,
     ReleaseLoad, ReleaseSave, AssignSaveRequest, AssignSaveProvider,
     CompleteLoad, CompleteSave, SaveRequest, SaveProvider
<1>5. ASSUME NEW h \in Handler, Abort(h) \/ OneSaveFails(h)
      PROVE  UNCHANGED requests
  BY <1>5 DEF Abort, OneSaveFails
<1>6. UNCHANGED vars => UNCHANGED requests
  BY DEF vars
<1> QED
  BY <1>1, <1>2, <1>3, <1>4, <1>5, <1>6, StoreIsEdge DEF Next

\* Without two handlers on one request, the engine implements the life cycle.
THEOREM LifecycleImplemented ==
  ASSUME Apart
  PROVE  Spec => ImplementsLifecycle
<1>1. Init => Lifecycle!Init
  BY DEF Init, Lifecycle!Init, AbsentRequest
<1>2. SerialInv /\ [Next]_vars =>
        [Lifecycle!Next]_([r \in Request |-> requests[r].status])
  BY StepIsLifecycle
<1> QED
  BY <1>1, <1>2, SerialInvInductive, PTL DEF Spec, ImplementsLifecycle, Lifecycle!Spec

\* ... and in particular never re-opens a request.
THEOREM TerminalStaysFinal ==
  ASSUME Apart
  PROVE  Spec => TerminalIsFinal
<1>1. ASSUME SerialInv, [Next]_vars, NEW r \in Request,
             isTerminalStatus(requests[r].status)
      PROVE  requests'[r].status = requests[r].status
  <2> DEFINE status == [x \in Request |-> requests[x].status]
  <2>1. status[r] = requests[r].status /\ status'[r] = requests'[r].status
    OBVIOUS
  <2>2. ASSUME NEW x \in Request, NEW to, status' = [status EXCEPT ![x] = to],
               status[x] \in { "ABSENT", "CREATED", "SEARCHING_PROVIDER" }
                 \/ canTransition(status[x], to)
        PROVE  status'[r] = status[r]
    <3>1. status[x] \in { "COMPLETED", "CANCELLED" } =>
            ~ canTransition(status[x], to)
      BY DEF canTransition, ALLOWED_TRANSITIONS
    <3>2. x # r
      BY <1>1, <2>1, <2>2, <3>1 DEF isTerminalStatus
    <3> QED
      BY <2>2, <3>2
  <2>3. Lifecycle!Next => status'[r] = status[r]
    BY <2>2, SameTable DEF Lifecycle!Next, Lifecycle!Create,
       Lifecycle!Advance, Lifecycle!Dispatched
  <2> QED
    BY <1>1, <2>1, <2>3, StepIsLifecycle
<1>2. SerialInv /\ [Next]_vars =>
        [\A r \in Request :
           isTerminalStatus(requests[r].status) =>
             requests'[r].status = requests[r].status]_vars
  BY <1>1
<1> QED
  BY <1>2, SerialInvInductive, PTL DEF Spec, TerminalIsFinal

-----------------------------------------------------------------------------
(***************************************************************************)
(* Who is online is verified.  A save writes only the fields that the      *)
(* handler changed, so of all handlers the two profile edits alone can     *)
(* break this, and only together: a provider going on line on a KYC status *)
(* that an admin is revoking.  It holds for any number of handlers when    *)
(* one of the two edits is not in use, and for both, one handler at a time.*)
(***************************************************************************)
Reviewed(doc) == doc.onlineStatus = "ONLINE" => doc.kycStatus = "VERIFIED"

SameReview(old, new) ==
  new.onlineStatus = old.onlineStatus /\ new.kycStatus = old.kycStatus

\* What a handler holds of a provider, over the documents stored now.
SlotReviewed(local, docs) ==
  IF local.pc # "saveProvider"
    THEN SameReview(local.pload, local.pdoc)
    ELSE /\ Reviewed(local.pdoc)
         /\ OneHandler => local.pload = docs[local.prov]
         /\ "kyc" \notin Ops =>
              /\ local.pdoc.kycStatus = local.pload.kycStatus
              /\ local.pload.kycStatus = docs[local.prov].kycStatus
         /\ "availability" \notin Ops =>
              /\ local.pload.onlineStatus = "OFFLINE" =>
                   docs[local.prov].onlineStatus = "OFFLINE"
              /\ local.pdoc.kycStatus = "VERIFIED" =>
                   local.pdoc.onlineStatus = local.pload.onlineStatus

OnlineInv ==
  /\ TypeInv
  /\ \A p \in Provider : Reviewed(providers[p])
  /\ \A h \in Handler : SlotReviewed(handler[h], providers)

LEMMA AssignReviewed ==
  ASSUME NEW me \in HandlerState, NEW p \in Provider, NEW doc \in ProviderDoc
  PROVE  LET local == assignProviderToRequest(me, p, doc) IN
         local.pc # "saveProvider" /\ SameReview(local.pload, local.pdoc)
<1>1. CASE mayBeAssigned(doc)
  BY <1>1 DEF assignProviderToRequest, SameReview, HandlerState, ProviderDoc
<1>2. CASE ~ mayBeAssigned(doc)
  BY <1>2 DEF assignProviderToRequest, SameReview, Idle
<1> QED
  BY <1>1, <1>2

LEMMA AfterReleaseReviewed ==
  ASSUME NEW me \in HandlerState, me.op = "assign" => me.prov \in Provider,
         SameReview(me.pload, me.pdoc)
  PROVE  LET local == AfterRelease(me) IN
         local.pc # "saveProvider" /\ SameReview(local.pload, local.pdoc)
<1>1. me.pload \in ProviderDoc
  BY DEF HandlerState
<1>2. CASE me.op = "assign"
  BY <1>1, <1>2, AssignReviewed DEF AfterRelease
<1>3. CASE me.op # "assign"
  BY <1>3 DEF AfterRelease, Cancelling, HandlerState
<1> QED
  BY <1>2, <1>3

\* A save that changes neither field leaves both as they are stored.
LEMMA StoreSameReview ==
  ASSUME TypeInv, NEW h \in Handler, StoreProvider(h),
         SameReview(handler[h].pload, handler[h].pdoc)
  PROVE  \A p \in Provider : SameReview(providers[p], providers'[p])
BY DEF StoreProvider, SavedProvider, Written, SameReview, TypeInv, TypeOK

\* A step that leaves the review of every provider alone.
LEMMA ReviewStep ==
  ASSUME OnlineInv, NEW h \in Handler, NEW local \in HandlerState,
         Goes(h, local),
         \A p \in Provider : SameReview(providers[p], providers'[p]),
         \/ local.pc # "saveProvider" /\ SameReview(local.pload, local.pdoc)
         \/ UNCHANGED providers /\ SlotReviewed(local, providers)
  PROVE  /\ \A p \in Provider : Reviewed(providers'[p])
         /\ \A g \in Handler : SlotReviewed(handler'[g], providers')
<1>1. /\ handler'[h] = local
      /\ \A g \in Handler : g # h => handler'[g] = handler[g]
  BY GoesSlot DEF OnlineInv, TypeInv, TypeOK
<1>2. \A p \in Provider : Reviewed(providers'[p])
  BY DEF OnlineInv, Reviewed, SameReview
<1>3. SlotReviewed(local, providers')
  BY DEF SlotReviewed
<1>4. ASSUME NEW g \in Handler, g # h
      PROVE  SlotReviewed(handler[g], providers')
  <2>1. /\ SlotReviewed(handler[g], providers)
        /\ handler[g].pc = "saveProvider" => handler[g].prov \in Provider
    BY SlotFacts DEF OnlineInv, SlotOK, NamesProvider
  <2>2. ~ OneHandler
    BY <1>4 DEF OneHandler
  <2> QED
    BY <2>1, <2>2 DEF SlotReviewed, SameReview
<1> QED
  BY <1>1, <1>2, <1>3, <1>4

LEMMA AcceptReviewed ==
  ASSUME OnlineInv, NEW h \in Handler, Accept(h)
  PROVE  /\ \A p \in Provider : Reviewed(providers'[p])
         /\ \A g \in Handler : SlotReviewed(handler'[g], providers')
<1>1. /\ \A p \in Provider : providers[p] \in ProviderDoc
      /\ handler \in [Handler -> HandlerState]
      /\ handler' \in [Handler -> HandlerState]
      /\ TypeInv
  BY AcceptTypeInv, SlotFacts DEF OnlineInv, TypeInv, TypeOK
<1>2. UNCHANGED providers /\ \A p \in Provider : SameReview(providers[p], providers'[p])
  BY DEF Accept, CreateInsert, CancelLoad, UpdateStatusLoad, AssignLoad,
     AvailabilityLoad, KycLoad, SameReview
<1>3. ASSUME NEW local, Goes(h, local),
             \/ local.pc # "saveProvider" /\ SameReview(local.pload, local.pdoc)
             \/ SlotReviewed(local, providers)
      PROVE  /\ \A p \in Provider : Reviewed(providers'[p])
             /\ \A g \in Handler : SlotReviewed(handler'[g], providers')
  <2>1. local \in HandlerState
    BY <1>1, <1>3 DEF Goes
  <2> QED
    BY <1>2, <1>3, <2>1, ReviewStep
\* The handlers that work on a request start without a provider.
<1>4. ASSUME NEW local, Goes(h, local), local.pc # "saveProvider",
             local.pload = OnboardedProvider, local.pdoc = OnboardedProvider
      PROVE  \E other : Goes(h, other) /\ other.pc # "saveProvider"
                          /\ SameReview(other.pload, other.pdoc)
  BY <1>4 DEF SameReview
<1>5. ASSUME NEW r \in Request,
             \/ CreateInsert(h, r) \/ CancelLoad(h, r)
             \/ \E to \in BreakdownStatus : UpdateStatusLoad(h, r, to)
      PROVE  \E local : Goes(h, local) /\ local.pc # "saveProvider"
                          /\ SameReview(local.pload, local.pdoc)
  <2>1. CASE CreateInsert(h, r)
    <3> DEFINE local == [Idle EXCEPT !.pc = "saveSearching", !.op = "create",
                                     !.req = r, !.rload = NewRequest,
                                     !.rdoc = [NewRequest EXCEPT
                                                 !.status = "SEARCHING_PROVIDER"]]
    <3>1. Goes(h, local)
      BY <2>1 DEF CreateInsert
    <3>2. /\ local.pc # "saveProvider"
          /\ local.pload = OnboardedProvider /\ local.pdoc = OnboardedProvider
      BY DEF Idle
    <3> HIDE DEF local
    <3> QED
      BY <1>4, <3>1, <3>2
  <2>2. CASE CancelLoad(h, r)
    <3> DEFINE loaded == [Idle EXCEPT !.pc = "releaseLoad", !.op = "cancel",
                                      !.req = r, !.rload = requests[r],
                                      !.rdoc = requests[r]]
    <3>1. Goes(h, loaded) \/ Goes(h, Cancelling(loaded))
      BY <2>2 DEF CancelLoad
    <3>2. /\ loaded.pc # "saveProvider"
          /\ loaded.pload = OnboardedProvider /\ loaded.pdoc = OnboardedProvider
      BY DEF Idle
    <3>3. loaded \in HandlerState
      BY <1>1, SlotFacts, DocConstantsType DEF HandlerState, PC, HandlerOp
    <3> HIDE DEF loaded
    <3>4. /\ Cancelling(loaded).pc # "saveProvider"
          /\ Cancelling(loaded).pload = OnboardedProvider
          /\ Cancelling(loaded).pdoc = OnboardedProvider
      BY <3>2, <3>3 DEF Cancelling, HandlerState
    <3> HIDE DEF Cancelling
    <3> QED
      BY <1>4, <3>1, <3>2, <3>4
  <2>3. ASSUME NEW to \in BreakdownStatus, UpdateStatusLoad(h, r, to)
        PROVE  \E local : Goes(h, local) /\ local.pc # "saveProvider"
                            /\ SameReview(local.pload, local.pdoc)
    <3> DEFINE doc == requests[r]
               local == [Idle EXCEPT
                 !.pc = IF to = "COMPLETED" /\ doc.assignedProviderId # NoProvider
                          THEN "completeLoad" ELSE "saveRequest",
                 !.op = "status", !.req = r, !.rload = doc,
                 !.rdoc = StatusEdit(doc, to)]
    <3>1. Goes(h, local)
      BY <2>3 DEF UpdateStatusLoad
    <3>2. /\ local.pc # "saveProvider"
          /\ local.pload = OnboardedProvider /\ local.pdoc = OnboardedProvider
      BY DEF Idle
    <3> HIDE DEF local
    <3> QED
      BY <1>4, <3>1, <3>2
  <2> QED
    BY <1>5, <2>1, <2>2, <2>3
<1>6. ASSUME NEW r \in Request, NEW p \in Provider, AssignLoad(h, r, p)
      PROVE  \E local : Goes(h, local) /\ local.pc # "saveProvider"
                          /\ SameReview(local.pload, local.pdoc)
  <2> DEFINE local == [Idle EXCEPT !.pc = "loadProvider", !.op = "assign",
                                   !.req = r, !.rload = requests[r],
                                   !.rdoc = requests[r], !.prov = p]
  <2>1. Goes(h, local)
    BY <1>6 DEF AssignLoad
  <2>2. /\ local.pc # "saveProvider"
        /\ local.pload = OnboardedProvider /\ local.pdoc = OnboardedProvider
    BY DEF Idle
  <2> HIDE DEF local
  <2> QED
    BY <1>4, <2>1, <2>2
<1>7. ASSUME NEW p \in Provider, NEW edited \in ProviderDoc,
             ProfileEdit(h, p, edited), Reviewed(edited),
             "kyc" \notin Ops => edited.kycStatus = providers[p].kycStatus,
             "availability" \notin Ops /\ edited.kycStatus = "VERIFIED" =>
               edited.onlineStatus = providers[p].onlineStatus
      PROVE  \E local : Goes(h, local) /\ SlotReviewed(local, providers)
  <2> DEFINE local == [Idle EXCEPT !.pc = "saveProvider", !.op = "profile",
                                   !.prov = p, !.pload = providers[p],
                                   !.pdoc = edited]
  <2>1. /\ local.pc = "saveProvider" /\ local.prov = p
        /\ local.pload = providers[p] /\ local.pdoc = edited
    BY DEF Idle
  <2>2. Goes(h, local)
    BY <1>7 DEF ProfileEdit
  <2> HIDE DEF local
  <2> QED
    BY <1>7, <2>1, <2>2 DEF SlotReviewed
\* Going on line asks for the KYC; what else the provider edits cannot bring
\* on line who is not.
<1>8. ASSUME NEW p \in Provider, NEW a \in AvailabilityStatus \cup { "UNSET" },
             NEW o \in OnlineStatus \cup { "UNSET" },
             AvailabilityLoad(h, p, a, o)
      PROVE  \E local : Goes(h, local) /\ SlotReviewed(local, providers)
  <2> DEFINE doc == providers[p]
             newOnline == IF o = "UNSET" THEN doc.onlineStatus ELSE o
             chosen == IF a = "UNSET" THEN doc.availabilityStatus ELSE a
             edited == [doc EXCEPT
               !.onlineStatus = newOnline,
               !.availabilityStatus =
                 IF newOnline = "ONLINE" /\ chosen = "OFFLINE"
                   THEN "AVAILABLE" ELSE chosen]
  <2>1. newOnline \in OnlineStatus /\ chosen \in AvailabilityStatus
    BY <1>1 DEF ProviderDoc
  <2>2. /\ newOnline = "ONLINE" => doc.kycStatus = "VERIFIED"
        /\ ProfileEdit(h, p, edited) /\ "availability" \in Ops
    BY <1>8 DEF AvailabilityLoad, goingOnline, OnlineInv, Reviewed
  <2> HIDE DEF newOnline, chosen
  <2>3. edited \in ProviderDoc
    BY <1>1, <2>1 DEF ProviderDoc, AvailabilityStatus
  <2>4. edited.onlineStatus = newOnline /\ edited.kycStatus = doc.kycStatus
    BY <1>1 DEF ProviderDoc
  <2> HIDE DEF edited
  <2> QED
    BY <1>7, <2>2, <2>3, <2>4 DEF Reviewed
<1>9. ASSUME NEW p \in Provider, NEW k \in KycInput, KycLoad(h, p, k)
      PROVE  \E local : Goes(h, local) /\ SlotReviewed(local, providers)
  <2> DEFINE edited == KycEdit(providers[p], k)
  <2>1. /\ edited \in ProviderDoc /\ edited.kycStatus = k
        /\ edited.onlineStatus = IF k = "VERIFIED" THEN providers[p].onlineStatus
                                                   ELSE "OFFLINE"
    BY <1>1, DispatchAssumption DEF KycEdit, ProviderDoc, OnlineStatus,
       AvailabilityStatus
  <2>2. ProfileEdit(h, p, edited) /\ "kyc" \in Ops
    BY <1>9 DEF KycLoad
  <2> HIDE DEF edited
  <2> QED
    BY <1>7, <2>1, <2>2 DEF Reviewed
<1> QED
  BY <1>3, <1>4, <1>5, <1>6, <1>8, <1>9, Zenon DEF Accept

LEMMA ContinueReviewed ==
  ASSUME OneHandler \/ "kyc" \notin Ops \/ "availability" \notin Ops,
         OnlineInv, NEW h \in Handler,
         Continue(h) \/ Abort(h) \/ OneSaveFails(h)
  PROVE  /\ \A p \in Provider : Reviewed(providers'[p])
         /\ \A g \in Handler : SlotReviewed(handler'[g], providers')
<1> DEFINE me == handler[h]
           Plain(local) ==
             local.pc # "saveProvider" /\ SameReview(local.pload, local.pdoc)
           Kept == /\ \A p \in Provider : Reviewed(providers'[p])
                   /\ \A g \in Handler : SlotReviewed(handler'[g], providers')
<1>1. /\ SlotOK(me) /\ me \in HandlerState /\ SlotReviewed(me, providers)
      /\ me.rdoc \in RequestDoc
      /\ me.pload \in ProviderDoc /\ me.pdoc \in ProviderDoc
      /\ \A q \in Provider : providers[q] \in ProviderDoc
      /\ providers \in [Provider -> ProviderDoc]
      /\ handler \in [Handler -> HandlerState]
      /\ handler' \in [Handler -> HandlerState]
      /\ TypeInv
  BY SlotFacts, ContinueTypeInv DEF OnlineInv, TypeInv, TypeOK
<1>2. ASSUME NEW local, Goes(h, local), Plain(local),
             \A p \in Provider : SameReview(providers[p], providers'[p])
      PROVE  Kept
  <2>1. local \in HandlerState
    BY <1>1, <1>2 DEF Goes
  <2> QED
    BY <1>2, <2>1, ReviewStep
<1>3. UNCHANGED providers => \A p \in Provider : SameReview(providers[p], providers'[p])
  BY DEF SameReview
<1>4. me.pc # "saveProvider" => SameReview(me.pload, me.pdoc)
  BY <1>1 DEF SlotReviewed
<1>5. Plain(Idle)
  BY DEF Idle, SameReview
<1>6. ASSUME me.pc # "saveProvider", NEW pc \in PC \ { "saveProvider" }
      PROVE  Plain([me EXCEPT !.pc = pc])
  BY <1>1, <1>4, <1>6 DEF HandlerState
<1>7. CASE CreateSaveSearching(h)
  <2>1. Plain([me EXCEPT !.pc = "findNearest", !.rload = me.rdoc])
    BY <1>1, <1>4, <1>7 DEF CreateSaveSearching, HandlerState
  <2> QED
    BY <1>2, <1>3, <1>7, <2>1 DEF CreateSaveSearching
<1>8. CASE FindNearest(h)
  <2>1. \A q \in EligibleProviders : Plain(assignProviderToRequest(me, q, providers[q]))
    BY <1>1, AssignReviewed DEF EligibleProviders
  <2> QED
    BY <1>2, <1>3, <1>5, <1>8, <2>1 DEF FindNearest
<1>9. CASE AssignLoadProvider(h)
  <2> DEFINE doc == providers[me.prov]
             releasing == [me EXCEPT !.pc = "releaseLoad",
                                     !.pload = doc, !.pdoc = doc]
  <2>1. me.prov \in Provider /\ doc \in ProviderDoc
    BY <1>1, <1>9 DEF AssignLoadProvider, SlotOK, NamesProvider
  <2>2. Plain(assignProviderToRequest(me, me.prov, doc))
    BY <1>1, <2>1, AssignReviewed
  <2>3. Plain(releasing)
    BY <1>1 DEF HandlerState, SameReview
  <2> QED
    BY <1>2, <1>3, <1>9, <2>2, <2>3 DEF AssignLoadProvider
<1>10. ASSUME me.pc \in { "releaseLoad", "releaseSave" } PROVE Plain(AfterRelease(me))
  <2>1. me.op = "assign" => me.prov \in Provider
    BY <1>1, <1>10 DEF SlotOK, NamesProvider
  <2> QED
    BY <1>1, <1>4, <1>10, <2>1, AfterReleaseReviewed
<1>11. CASE ReleaseLoad(h)
  <2>1. Plain([me EXCEPT !.pc = "releaseSave"])
    BY <1>6, <1>11 DEF ReleaseLoad, PC
  <2> QED
    BY <1>2, <1>3, <1>10, <1>11, <2>1 DEF ReleaseLoad
<1>12. CASE ReleaseSave(h)
  <2>1. \A p \in Provider : SameReview(providers[p], providers'[p])
    BY <1>1, <1>12 DEF ReleaseSave, SameReview, ProviderDoc
  <2> QED
    BY <1>2, <1>10, <1>12, <2>1 DEF ReleaseSave
<1>13. CASE AssignSaveRequest(h) \/ SaveRequest(h)
  <2>1. Plain([me EXCEPT !.pc = "assignSaveProvider"])
    BY <1>6, <1>13 DEF AssignSaveRequest, SaveRequest, PC
  <2> QED
    BY <1>2, <1>3, <1>5, <1>13, <2>1 DEF AssignSaveRequest, SaveRequest
<1>14. ASSUME StoreProvider(h), me.pc # "saveProvider"
       PROVE  \A p \in Provider : SameReview(providers[p], providers'[p])
  BY <1>1, <1>4, <1>14, StoreSameReview
<1>15. CASE AssignSaveProvider(h)
  <2>1. Plain([me EXCEPT !.pc = "assignSaveRequest"])
    BY <1>6, <1>15 DEF AssignSaveProvider, PC
  <2> QED
    BY <1>2, <1>5, <1>14, <1>15, <2>1 DEF AssignSaveProvider
<1>16. CASE CompleteLoad(h)
  <2> DEFINE p == me.rdoc.assignedProviderId
             doc == providers[p]
             edited == JobDone(doc)
             local == [me EXCEPT !.pc = "completeSave", !.prov = p,
                                 !.pload = doc, !.pdoc = edited]
  <2>1. p \in Provider /\ doc \in ProviderDoc
    BY <1>1, <1>16 DEF CompleteLoad, SlotOK, NamesProvider
  <2>2. SameReview(doc, edited)
    BY <2>1 DEF JobDone, SameReview, ProviderDoc
  <2>3. Goes(h, local) /\ UNCHANGED providers
    BY <1>16 DEF CompleteLoad
  <2> HIDE DEF p, doc, edited
  <2>4. Plain(local)
    BY <1>1, <2>2 DEF HandlerState
  <2> HIDE DEF local
  <2> QED
    BY <1>2, <1>3, <2>3, <2>4
<1>17. CASE CompleteSave(h)
  <2>1. Plain([me EXCEPT !.pc = "saveRequest", !.prov = NoProvider,
                         !.pload = OnboardedProvider,
                         !.pdoc = OnboardedProvider])
    BY <1>1 DEF HandlerState, SameReview
  <2> QED
    BY <1>2, <1>14, <1>17, <2>1 DEF CompleteSave
\* The profile edits' own save.
<1>18. CASE SaveProvider(h)
  <2> DEFINE p == me.prov
             saved == SavedProvider(providers[p], me.pload, me.pdoc)
  <2>1. p \in Provider /\ me.pc = "saveProvider"
    BY <1>1, <1>18 DEF SaveProvider, SlotOK, NamesProvider
  <2>2. /\ providers'[p] = saved
        /\ \A q \in Provider : q # p => providers'[q] = providers[q]
    BY <1>1, <1>18, <2>1 DEF SaveProvider, StoreProvider
  <2>3. /\ saved.onlineStatus = Written(providers[p].onlineStatus,
                                        me.pload.onlineStatus, me.pdoc.onlineStatus)
        /\ saved.kycStatus = Written(providers[p].kycStatus,
                                     me.pload.kycStatus, me.pdoc.kycStatus)
    BY DEF SavedProvider
  <2>4. /\ Reviewed(providers[p]) /\ Reviewed(me.pdoc)
        /\ me.pdoc.onlineStatus \in { "ONLINE", "OFFLINE" }
        /\ me.pload.onlineStatus \in { "ONLINE", "OFFLINE" }
        /\ providers[p].onlineStatus \in { "ONLINE", "OFFLINE" }
    BY <1>1, <2>1 DEF OnlineInv, SlotReviewed, ProviderDoc, OnlineStatus
  <2>5. Reviewed(saved)
    <3>1. CASE OneHandler
      BY <1>1, <2>1, <2>3, <2>4, <3>1 DEF SlotReviewed, Reviewed, Written
    <3>2. CASE "kyc" \notin Ops
      BY <1>1, <2>1, <2>3, <2>4, <3>2 DEF SlotReviewed, Reviewed, Written
    <3>3. CASE "availability" \notin Ops
      BY <1>1, <2>1, <2>3, <2>4, <3>3 DEF SlotReviewed, Reviewed, Written
    <3> QED
      BY <3>1, <3>2, <3>3
  <2>6. \A q \in Provider : Reviewed(providers'[q])
    BY <2>2, <2>5 DEF OnlineInv
  <2>7. /\ handler'[h] = Idle
        /\ \A g \in Handler : g # h => handler'[g] = handler[g]
    BY <1>1, <1>18 DEF SaveProvider, Goes
  <2>8. /\ "kyc" \notin Ops => saved.kycStatus = providers[p].kycStatus
        /\ "availability" \notin Ops /\ providers[p].onlineStatus = "OFFLINE" =>
             saved.onlineStatus = "OFFLINE"
    <3>1. "kyc" \notin Ops => saved.kycStatus = providers[p].kycStatus
      BY <1>1, <2>1, <2>3 DEF SlotReviewed, Written
    <3>2. ASSUME "availability" \notin Ops, providers[p].onlineStatus = "OFFLINE"
          PROVE  saved.onlineStatus = "OFFLINE"
      BY <1>1, <2>1, <2>3, <2>4, <3>2 DEF SlotReviewed, Written, Reviewed
    <3> QED
      BY <3>1, <3>2
  <2>9. ASSUME NEW g \in Handler, g # h
        PROVE  SlotReviewed(handler[g], providers')
    <3>1. /\ SlotReviewed(handler[g], providers) /\ ~ OneHandler
          /\ handler[g].pc = "saveProvider" => handler[g].prov \in Provider
      BY <2>9, SlotFacts DEF OnlineInv, OneHandler, SlotOK, NamesProvider
    <3> QED
      BY <2>2, <2>8, <3>1 DEF SlotReviewed
  <2> QED
    BY <1>5, <2>6, <2>7, <2>9 DEF SlotReviewed
<1>19. CASE Abort(h)
  BY <1>2, <1>3, <1>5, <1>19 DEF Abort
<1>20. CASE OneSaveFails(h)
  <2>1. \A left \in { "assignSaveRequest", "assignSaveProvider" } :
          Plain([me EXCEPT !.pc = left])
    BY <1>6, <1>20 DEF OneSaveFails, PC
  <2> QED
    BY <1>2, <1>3, <1>20, <2>1 DEF OneSaveFails
<1> QED
  BY <1>7, <1>8, <1>9, <1>11, <1>12, <1>13, <1>15, <1>16, <1>17, <1>18, <1>19,
     <1>20 DEF Continue

LEMMA InitOnline ==
  ASSUME OneHandler \/ "kyc" \notin Ops \/ "availability" \notin Ops
  PROVE  Init => OnlineInv
<1> SUFFICES ASSUME Init PROVE OnlineInv
  OBVIOUS
<1>1. \A h \in Handler : SlotReviewed(handler[h], providers)
  BY DEF Init, SlotReviewed, SameReview, Idle
<1>2. \A p \in Provider : Reviewed(providers[p])
  BY DEF Init, Reviewed, ReadyProvider, OnboardedProvider
<1> QED
  BY <1>1, <1>2, InitTypeInv DEF OnlineInv

LEMMA StepOnline ==
  ASSUME OneHandler \/ "kyc" \notin Ops \/ "availability" \notin Ops
  PROVE  OnlineInv /\ [Next]_vars => OnlineInv'
<1> SUFFICES ASSUME OnlineInv, [Next]_vars PROVE OnlineInv'
  OBVIOUS
<1>1. TypeInv'
  BY NextTypeInv DEF OnlineInv
<1>2. CASE UNCHANGED vars
  BY <1>1, <1>2 DEF OnlineInv, vars
<1>3. CASE Next
  BY <1>1, <1>3, AcceptReviewed, ContinueReviewed DEF Next, OnlineInv
<1> QED
  BY <1>2, <1>3

LEMMA OnlineVerified == OnlineInv => OnlineImpliesVerified
BY DEF OnlineInv, Reviewed, OnlineImpliesVerified

\* A provider who is online is verified: for any number of handlers while
\* providers do not edit their availability or admins do not review, and for
\* both edits when handlers run one at a time, cut off anywhere.
THEOREM OnlineAlwaysVerified ==
  ASSUME OneHandler \/ "kyc" \notin Ops \/ "availability" \notin Ops
  PROVE  Spec => []OnlineImpliesVerified
BY InitOnline, StepOnline, OnlineVerified, PTL DEF Spec

-----------------------------------------------------------------------------
(***************************************************************************)
(* One handler at a time: what it holds is what is stored, until it writes,*)
(* and then it writes whole documents.  (Faults may still cut it off.)     *)
(***************************************************************************)
\* The request's own save, the last if there are two, is still to come.
HoldsRequest ==
  { "saveSearching", "findNearest", "loadProvider", "releaseLoad",
    "releaseSave", "assignSaveBoth", "assignSaveRequest", "completeLoad",
    "completeSave", "saveRequest" }

\* What a handler holds, over the documents stored now: it is up to date, and
\* this is how the handler has edited it.
Held(local, reqs, provs) ==
  /\ local.pc \in HoldsRequest =>
       local.req \in Request /\ local.rload = reqs[local.req]
  /\ local.pc \in { "findNearest", "loadProvider", "releaseLoad", "releaseSave" } =>
       local.rdoc = local.rload
  /\ local.pc \in { "releaseLoad", "releaseSave" } /\ local.op = "assign" =>
       local.pload = provs[local.prov]
  /\ local.pc = "releaseSave" =>
       /\ local.rdoc.assignedProviderId \in Provider
       /\ provs[local.rdoc.assignedProviderId].availabilityStatus # "AVAILABLE"
  /\ local.pc \in { "assignSaveBoth", "assignSaveRequest", "assignSaveProvider" } =>
       /\ local.prov \in Provider
       /\ local.rdoc.assignedProviderId = local.prov
       /\ local.rdoc.status = "PROVIDER_ASSIGNED"
  /\ local.pc \in { "assignSaveBoth", "assignSaveProvider" } =>
       /\ local.pload = provs[local.prov] /\ mayBeAssigned(local.pload)
       /\ local.pdoc = [local.pload EXCEPT !.availabilityStatus = "BUSY"]
  /\ local.pc \in { "completeLoad", "completeSave", "saveRequest" } =>
       local.rdoc.assignedProviderId = local.rload.assignedProviderId
  /\ local.pc \in { "completeLoad", "completeSave" } =>
       local.rdoc.status = "COMPLETED"
  /\ local.pc = "completeSave" =>
       /\ local.prov \in Provider
       /\ local.prov = local.rdoc.assignedProviderId
       /\ local.pload = provs[local.prov]
       /\ local.pdoc = JobDone(local.pload)
  /\ local.pc = "saveProvider" =>
       /\ local.prov \in Provider
       /\ local.pload = provs[local.prov]
       /\ local.pdoc.totalCompletedRequests = local.pload.totalCompletedRequests

AloneInv == SerialInv /\ \A h \in Handler : Held(handler[h], requests, providers)

LEMMA IdleHeld == \A reqs, provs : Held(Idle, reqs, provs)
BY DEF Held, Idle, HoldsRequest

\* A provider is put on the request that the handler holds, or it ends.
LEMMA AssignHeld ==
  ASSUME NEW me \in HandlerState, NEW reqs, NEW provs, NEW p \in Provider,
         me.req \in Request, me.rload = reqs[me.req], provs[p] \in ProviderDoc,
         NEW doc \in ProviderDoc, mayBeAssigned(doc) => doc = provs[p]
  PROVE  Held(assignProviderToRequest(me, p, doc), reqs, provs)
<1>1. CASE mayBeAssigned(doc)
  <2> DEFINE local == assignProviderToRequest(me, p, doc)
  <2>1. /\ local.pc = "assignSaveBoth" /\ local.req = me.req
        /\ local.rload = me.rload
        /\ local.rdoc.assignedProviderId = p
        /\ local.rdoc.status = "PROVIDER_ASSIGNED"
        /\ local.prov = p /\ local.pload = doc
        /\ local.pdoc = [doc EXCEPT !.availabilityStatus = "BUSY"]
    BY <1>1 DEF assignProviderToRequest, HandlerState, RequestDoc
  <2> HIDE DEF local
  <2>2. Held(local, reqs, provs)
    BY <1>1, <2>1 DEF Held, HoldsRequest
  <2> QED
    BY <2>2 DEF local
<1>2. CASE ~ mayBeAssigned(doc)
  BY <1>2, IdleHeld DEF assignProviderToRequest
<1> QED
  BY <1>1, <1>2

LEMMA CancellingHeld ==
  ASSUME NEW me \in HandlerState, NEW reqs, NEW provs,
         me.req \in Request, me.rload = reqs[me.req], me.rdoc = me.rload
  PROVE  Held(Cancelling(me), reqs, provs)
<1> DEFINE local == Cancelling(me)
<1>1. /\ local.pc = "saveRequest" /\ local.req = me.req
      /\ local.rload = me.rload
      /\ local.rdoc.assignedProviderId = me.rdoc.assignedProviderId
  BY DEF Cancelling, HandlerState, RequestDoc
<1> HIDE DEF local
<1>2. Held(local, reqs, provs)
  BY <1>1 DEF Held, HoldsRequest
<1> QED
  BY <1>2 DEF local

\* After the release: the provider who is to be assigned was loaded before it.
\* Either the release did not concern him, or he was not available.
LEMMA AfterReleaseHeld ==
  ASSUME NEW me \in HandlerState, NEW reqs, NEW provs,
         me.req \in Request, me.rload = reqs[me.req], me.rdoc = me.rload,
         me.op = "assign" =>
           /\ me.prov \in Provider /\ provs[me.prov] \in ProviderDoc
           /\ mayBeAssigned(me.pload) => me.pload = provs[me.prov]
  PROVE  Held(AfterRelease(me), reqs, provs)
<1>1. me.pload \in ProviderDoc
  BY DEF HandlerState
<1>2. CASE me.op = "assign"
  BY <1>1, <1>2, AssignHeld DEF AfterRelease
<1>3. CASE me.op # "assign"
  BY <1>3, CancellingHeld DEF AfterRelease
<1> QED
  BY <1>2, <1>3

\* What is written is the whole document that the handler edited.
LEMMA StoreRequestAlone ==
  ASSUME AloneInv, NEW h \in Handler, handler[h].pc \in HoldsRequest,
         StoreRequest(h)
  PROVE  /\ requests'[handler[h].req] = handler[h].rdoc
         /\ \A r \in Request : r # handler[h].req => requests'[r] = requests[r]
<1> DEFINE me == handler[h]
<1>1. /\ requests \in [Request -> RequestDoc] /\ me.rdoc \in RequestDoc
      /\ me.req \in Request /\ me.rload = requests[me.req]
  BY SlotFacts DEF AloneInv, SerialInv, TypeInv, TypeOK, Held
<1>2. SavedRequest(requests[me.req], me.rload, me.rdoc) = me.rdoc
  BY <1>1 DEF SavedRequest, Written, RequestDoc
<1> QED
  BY <1>1, <1>2 DEF StoreRequest

LEMMA StoreProviderAlone ==
  ASSUME AloneInv, NEW h \in Handler, StoreProvider(h),
         handler[h].pc \in { "assignSaveBoth", "assignSaveProvider",
                             "completeSave", "saveProvider" }
  PROVE  /\ handler[h].prov \in Provider
         /\ handler[h].pload = providers[handler[h].prov]
         /\ providers'[handler[h].prov] = handler[h].pdoc
         /\ \A p \in Provider : p # handler[h].prov => providers'[p] = providers[p]
<1> DEFINE me == handler[h]
<1>1. /\ providers \in [Provider -> ProviderDoc] /\ me.pdoc \in ProviderDoc
      /\ me.prov \in Provider /\ me.pload = providers[me.prov]
  BY SlotFacts DEF AloneInv, SerialInv, TypeInv, TypeOK, Held
<1>2. SavedProvider(providers[me.prov], me.pload, me.pdoc) = me.pdoc
  BY <1>1 DEF SavedProvider, Written, ProviderDoc
<1> QED
  BY <1>1, <1>2 DEF StoreProvider

\* The only slot is the one that the step fills.
LEMMA OnlySlot ==
  ASSUME OneHandler, TypeInv, NEW h \in Handler, NEW local, Goes(h, local)
  PROVE  \A g \in Handler : handler'[g] = local
BY DEF OneHandler, Goes, TypeInv, TypeOK

LEMMA AcceptHeld ==
  ASSUME OneHandler, AloneInv, NEW h \in Handler, Accept(h)
  PROVE  \A g \in Handler : Held(handler'[g], requests', providers')
<1>1. /\ \A r \in Request : requests[r] \in RequestDoc
      /\ \A p \in Provider : providers[p] \in ProviderDoc
      /\ requests \in [Request -> RequestDoc]
      /\ TypeInv
  BY SlotFacts DEF AloneInv, SerialInv, TypeInv, TypeOK
<1>2. ASSUME NEW local, Goes(h, local), Held(local, requests', providers')
      PROVE  \A g \in Handler : Held(handler'[g], requests', providers')
  BY <1>1, <1>2, OnlySlot
<1>3. ASSUME NEW r \in Request, CreateInsert(h, r)
      PROVE  \A g \in Handler : Held(handler'[g], requests', providers')
  <2> DEFINE searching == [NewRequest EXCEPT !.status = "SEARCHING_PROVIDER"]
             local == [Idle EXCEPT !.pc = "saveSearching", !.op = "create",
                                   !.req = r, !.rload = NewRequest,
                                   !.rdoc = searching]
  <2>1. Goes(h, local) /\ requests'[r] = NewRequest
    BY <1>1, <1>3 DEF CreateInsert
  <2>2. local.pc = "saveSearching" /\ local.req = r /\ local.rload = NewRequest
    <3> HIDE DEF searching
    <3> QED
      BY DEF Idle
  <2> HIDE DEF local, searching
  <2>3. Held(local, requests', providers')
    BY <2>1, <2>2 DEF Held, HoldsRequest
  <2> QED
    BY <1>2, <2>1, <2>3
<1>4. ASSUME NEW r \in Request, CancelLoad(h, r)
      PROVE  \A g \in Handler : Held(handler'[g], requests', providers')
  <2> DEFINE me == [Idle EXCEPT !.pc = "releaseLoad", !.op = "cancel",
                                !.req = r, !.rload = requests[r],
                                !.rdoc = requests[r]]
  <2>1. /\ me.pc = "releaseLoad" /\ me.op = "cancel" /\ me.req = r
        /\ me.rload = requests[r] /\ me.rdoc = requests[r]
    BY DEF Idle
  <2>2. me \in HandlerState
    BY <1>1, DocConstantsType DEF HandlerState, PC, HandlerOp
  <2>3. UNCHANGED requests /\ (Goes(h, me) \/ Goes(h, Cancelling(me)))
    BY <1>4 DEF CancelLoad
  <2> HIDE DEF me
  <2>4. Held(me, requests', providers') /\ Held(Cancelling(me), requests', providers')
    BY <2>1, <2>2, <2>3, CancellingHeld DEF Held, HoldsRequest
  <2> QED
    BY <1>2, <2>3, <2>4
<1>5. ASSUME NEW r \in Request, NEW to \in BreakdownStatus,
             UpdateStatusLoad(h, r, to)
      PROVE  \A g \in Handler : Held(handler'[g], requests', providers')
  <2> DEFINE doc == requests[r]
             edited == StatusEdit(doc, to)
             pc == IF to = "COMPLETED" /\ doc.assignedProviderId # NoProvider
                     THEN "completeLoad" ELSE "saveRequest"
             local == [Idle EXCEPT !.pc = pc, !.op = "status", !.req = r,
                                   !.rload = doc, !.rdoc = edited]
  <2>1. Goes(h, local) /\ UNCHANGED requests
    BY <1>5 DEF UpdateStatusLoad
  <2>2. /\ edited.status = to
        /\ edited.assignedProviderId = doc.assignedProviderId
    BY <1>1 DEF StatusEdit, RequestDoc
  <2>3. pc \in { "completeLoad", "saveRequest" }
        /\ (pc = "completeLoad" => to = "COMPLETED")
    OBVIOUS
  <2> HIDE DEF edited, pc
  <2>4. /\ local.pc = pc /\ local.req = r /\ local.rload = doc
        /\ local.rdoc = edited
    BY DEF Idle
  <2> HIDE DEF local
  <2>5. Held(local, requests', providers')
    BY <2>1, <2>2, <2>3, <2>4 DEF Held, HoldsRequest
  <2> QED
    BY <1>2, <2>1, <2>5
<1>6. ASSUME NEW r \in Request, NEW p \in Provider, AssignLoad(h, r, p)
      PROVE  \A g \in Handler : Held(handler'[g], requests', providers')
  <2> DEFINE local == [Idle EXCEPT !.pc = "loadProvider", !.op = "assign",
                                   !.req = r, !.rload = requests[r],
                                   !.rdoc = requests[r], !.prov = p]
  <2>1. /\ local.pc = "loadProvider" /\ local.req = r
        /\ local.rload = requests[r] /\ local.rdoc = requests[r]
    BY DEF Idle
  <2>2. Goes(h, local) /\ UNCHANGED requests
    BY <1>6 DEF AssignLoad
  <2> HIDE DEF local
  <2>3. Held(local, requests', providers')
    BY <2>1, <2>2 DEF Held, HoldsRequest
  <2> QED
    BY <1>2, <2>2, <2>3
<1>7. ASSUME NEW p \in Provider, NEW edited, ProfileEdit(h, p, edited),
             UNCHANGED providers,
             edited.totalCompletedRequests = providers[p].totalCompletedRequests
      PROVE  \A g \in Handler : Held(handler'[g], requests', providers')
  <2> DEFINE local == [Idle EXCEPT !.pc = "saveProvider", !.op = "profile",
                                   !.prov = p, !.pload = providers[p],
                                   !.pdoc = edited]
  <2>1. /\ local.pc = "saveProvider" /\ local.prov = p
        /\ local.pload = providers[p] /\ local.pdoc = edited
    BY DEF Idle
  <2>2. Goes(h, local)
    BY <1>7 DEF ProfileEdit
  <2> HIDE DEF local
  <2>3. Held(local, requests', providers')
    BY <1>7, <2>1 DEF Held, HoldsRequest
  <2> QED
    BY <1>2, <2>2, <2>3
<1>8. ASSUME NEW p \in Provider, NEW a \in AvailabilityStatus \cup { "UNSET" },
             NEW o \in OnlineStatus \cup { "UNSET" },
             AvailabilityLoad(h, p, a, o)
      PROVE  \A g \in Handler : Held(handler'[g], requests', providers')
  <2> DEFINE doc == providers[p]
             newOnline == IF o = "UNSET" THEN doc.onlineStatus ELSE o
             chosen == IF a = "UNSET" THEN doc.availabilityStatus ELSE a
             available == IF newOnline = "ONLINE" /\ chosen = "OFFLINE"
                            THEN "AVAILABLE" ELSE chosen
             edited == [doc EXCEPT !.onlineStatus = newOnline,
                                   !.availabilityStatus = available]
  <2>1. ProfileEdit(h, p, edited) /\ UNCHANGED providers
    BY <1>8 DEF AvailabilityLoad
  <2> HIDE DEF newOnline, available
  <2>2. edited.totalCompletedRequests = doc.totalCompletedRequests
    BY <1>1 DEF ProviderDoc
  <2> HIDE DEF edited
  <2> QED
    BY <1>7, <2>1, <2>2
<1>9. ASSUME NEW p \in Provider, NEW k \in KycInput, KycLoad(h, p, k)
      PROVE  \A g \in Handler : Held(handler'[g], requests', providers')
  <2>1. KycEdit(providers[p], k).totalCompletedRequests =
          providers[p].totalCompletedRequests
    BY <1>1 DEF KycEdit, ProviderDoc
  <2> QED
    BY <1>7, <1>9, <2>1 DEF KycLoad
<1> QED
  BY <1>3, <1>4, <1>5, <1>6, <1>8, <1>9 DEF Accept

LEMMA ContinueHeld ==
  ASSUME OneHandler, AloneInv, NEW h \in Handler,
         Continue(h) \/ Abort(h) \/ OneSaveFails(h)
  PROVE  \A g \in Handler : Held(handler'[g], requests', providers')
<1> DEFINE me == handler[h]
           Kept == \A g \in Handler : Held(handler'[g], requests', providers')
<1>1. /\ SlotOK(me) /\ me \in HandlerState
      /\ Held(me, requests, providers)
      /\ me.rdoc \in RequestDoc
      /\ me.pload \in ProviderDoc /\ me.pdoc \in ProviderDoc
      /\ \A q \in Provider : providers[q] \in ProviderDoc
      /\ providers \in [Provider -> ProviderDoc]
      /\ TypeInv
  BY SlotFacts DEF AloneInv, SerialInv, TypeInv, TypeOK
<1>2. ASSUME NEW local, Goes(h, local), Held(local, requests', providers')
      PROVE  Kept
  BY <1>1, <1>2, OnlySlot
<1>3. CASE Goes(h, Idle)
  BY <1>2, <1>3, IdleHeld
<1>4. me.pc \in HoldsRequest => me.req \in Request /\ me.rload = requests[me.req]
  BY <1>1 DEF Held
<1>5. CASE CreateSaveSearching(h)
  <2> DEFINE local == [me EXCEPT !.pc = "findNearest", !.rload = me.rdoc]
  <2>1. /\ local.pc = "findNearest" /\ local.req = me.req
        /\ local.rload = me.rdoc /\ local.rdoc = me.rdoc
    BY <1>1 DEF HandlerState
  <2>2. Goes(h, local) /\ requests'[me.req] = me.rdoc /\ me.req \in Request
    BY <1>4, <1>5, StoreRequestAlone DEF CreateSaveSearching, HoldsRequest
  <2> HIDE DEF local
  <2>3. Held(local, requests', providers')
    BY <2>1, <2>2 DEF Held, HoldsRequest
  <2> QED
    BY <1>2, <2>2, <2>3
<1>6. CASE FindNearest(h)
  <2>1. \A q \in EligibleProviders :
          Held(assignProviderToRequest(me, q, providers[q]), requests, providers)
    BY <1>1, <1>4, <1>6, AssignHeld DEF EligibleProviders, FindNearest, HoldsRequest
  <2> QED
    BY <1>2, <1>3, <1>6, <2>1 DEF FindNearest
<1>7. CASE AssignLoadProvider(h)
  <2> DEFINE doc == providers[me.prov]
             local == [me EXCEPT !.pc = "releaseLoad", !.pload = doc, !.pdoc = doc]
  <2>1. /\ me.prov \in Provider /\ doc \in ProviderDoc
        /\ me.pc = "loadProvider" /\ UNCHANGED << requests, providers >>
    BY <1>1, <1>7 DEF AssignLoadProvider, SlotOK, NamesProvider
  <2>2. Held(assignProviderToRequest(me, me.prov, doc), requests, providers)
    BY <1>1, <1>4, <2>1, AssignHeld DEF HoldsRequest
  <2>3. /\ local.pc = "releaseLoad" /\ local.req = me.req
        /\ local.rload = me.rload /\ local.rdoc = me.rdoc
        /\ local.prov = me.prov /\ local.pload = doc
    BY <1>1 DEF HandlerState
  <2>4. Goes(h, local) \/ Goes(h, assignProviderToRequest(me, me.prov, doc))
    BY <1>7 DEF AssignLoadProvider
  <2> HIDE DEF local
  <2>5. Held(local, requests, providers)
    BY <1>1, <2>1, <2>3 DEF Held, HoldsRequest
  <2> QED
    BY <1>2, <2>1, <2>2, <2>4, <2>5
<1>8. ASSUME me.pc \in { "releaseLoad", "releaseSave" }
      PROVE  /\ me.req \in Request /\ me.rload = requests[me.req]
             /\ me.rdoc = me.rload /\ me.rdoc.assignedProviderId \in Provider
             /\ me.op = "assign" =>
                  me.prov \in Provider /\ me.pload = providers[me.prov]
  BY <1>1, <1>8 DEF Held, HoldsRequest, SlotOK, NamesProvider
<1>9. CASE ReleaseLoad(h)
  <2> DEFINE local == [me EXCEPT !.pc = "releaseSave"]
             old == providers[me.rdoc.assignedProviderId]
  <2>1. /\ local.pc = "releaseSave" /\ local.req = me.req /\ local.op = me.op
        /\ local.rload = me.rload /\ local.rdoc = me.rdoc
        /\ local.prov = me.prov /\ local.pload = me.pload
    BY <1>1 DEF HandlerState
  <2>2. /\ me.pc = "releaseLoad" /\ UNCHANGED << requests, providers >>
        /\ IF old.availabilityStatus = "AVAILABLE"
             THEN Goes(h, AfterRelease(me)) ELSE Goes(h, local)
    BY <1>9 DEF ReleaseLoad
  <2> HIDE DEF local
  <2>3. old.availabilityStatus # "AVAILABLE" => Held(local, requests, providers)
    BY <1>8, <2>1, <2>2 DEF Held, HoldsRequest
  <2>4. Held(AfterRelease(me), requests, providers)
    BY <1>1, <1>8, <2>2, AfterReleaseHeld
  <2> QED
    BY <1>2, <2>2, <2>3, <2>4
<1>10. CASE ReleaseSave(h)
  <2> DEFINE q == me.rdoc.assignedProviderId
  <2>1. /\ me.pc = "releaseSave" /\ UNCHANGED requests /\ Goes(h, AfterRelease(me))
        /\ providers' = [providers EXCEPT ![q].availabilityStatus = "AVAILABLE"]
    BY <1>10 DEF ReleaseSave
  <2>2. q \in Provider /\ providers[q].availabilityStatus # "AVAILABLE"
    BY <1>1, <2>1 DEF Held
  <2>3. \A p \in Provider : p # q => providers'[p] = providers[p]
    BY <1>1, <2>1
  <2>4. \A p \in Provider : providers'[p] \in ProviderDoc
    BY <1>1, <2>1 DEF ProviderDoc, AvailabilityStatus
  <2>5. me.op = "assign" =>
          /\ me.prov \in Provider /\ providers'[me.prov] \in ProviderDoc
          /\ mayBeAssigned(me.pload) => me.pload = providers'[me.prov]
    BY <1>8, <2>1, <2>2, <2>3, <2>4 DEF mayBeAssigned
  <2>6. Held(AfterRelease(me), requests', providers')
    BY <1>1, <1>8, <2>1, <2>5, AfterReleaseHeld
  <2> QED
    BY <1>2, <2>1, <2>6
<1>11. CASE AssignSaveRequest(h)
  <2> DEFINE local == [me EXCEPT !.pc = "assignSaveProvider"]
  <2>1. /\ local.pc = "assignSaveProvider"
        /\ local.rdoc = me.rdoc /\ local.prov = me.prov
        /\ local.pload = me.pload /\ local.pdoc = me.pdoc
    BY <1>1 DEF HandlerState
  <2>2. /\ UNCHANGED providers
        /\ \/ Goes(h, local) /\ me.pc = "assignSaveBoth"
           \/ Goes(h, Idle)
    BY <1>11 DEF AssignSaveRequest
  <2> HIDE DEF local
  <2>3. me.pc = "assignSaveBoth" => Held(local, requests', providers')
    BY <1>1, <2>1, <2>2 DEF Held, HoldsRequest
  <2> QED
    BY <1>2, <1>3, <2>2, <2>3
<1>12. CASE AssignSaveProvider(h)
  <2> DEFINE local == [me EXCEPT !.pc = "assignSaveRequest"]
  <2>1. /\ local.pc = "assignSaveRequest" /\ local.req = me.req
        /\ local.rload = me.rload /\ local.rdoc = me.rdoc
        /\ local.prov = me.prov
    BY <1>1 DEF HandlerState
  <2>2. /\ UNCHANGED requests
        /\ \/ Goes(h, local) /\ me.pc = "assignSaveBoth"
           \/ Goes(h, Idle)
    BY <1>12 DEF AssignSaveProvider
  <2> HIDE DEF local
  <2>3. me.pc = "assignSaveBoth" => Held(local, requests', providers')
    BY <1>1, <2>1, <2>2 DEF Held, HoldsRequest
  <2> QED
    BY <1>2, <1>3, <2>2, <2>3
<1>13. CASE CompleteLoad(h)
  <2> DEFINE p == me.rdoc.assignedProviderId
             doc == providers[p]
             edited == JobDone(doc)
             local == [me EXCEPT !.pc = "completeSave", !.prov = p,
                                 !.pload = doc, !.pdoc = edited]
  <2>1. /\ Goes(h, local) /\ me.pc = "completeLoad"
        /\ UNCHANGED << requests, providers >>
    BY <1>13 DEF CompleteLoad
  <2>2. p \in Provider
    BY <1>1, <2>1 DEF SlotOK, NamesProvider
  <2> HIDE DEF edited
  <2>3. /\ local.pc = "completeSave" /\ local.req = me.req
        /\ local.rload = me.rload /\ local.rdoc = me.rdoc
        /\ local.prov = p /\ local.pload = doc /\ local.pdoc = edited
    BY <1>1 DEF HandlerState
  <2> HIDE DEF local
  <2>4. Held(local, requests, providers)
    BY <1>1, <2>1, <2>2, <2>3 DEF Held, HoldsRequest, edited
  <2> QED
    BY <1>2, <2>1, <2>4
<1>14. CASE CompleteSave(h)
  <2> DEFINE local == [me EXCEPT !.pc = "saveRequest", !.prov = NoProvider,
                                 !.pload = OnboardedProvider,
                                 !.pdoc = OnboardedProvider]
  <2>1. /\ local.pc = "saveRequest" /\ local.req = me.req
        /\ local.rload = me.rload /\ local.rdoc = me.rdoc
    BY <1>1 DEF HandlerState
  <2>2. Goes(h, local) /\ me.pc = "completeSave" /\ UNCHANGED requests
    BY <1>14 DEF CompleteSave
  <2> HIDE DEF local
  <2>3. Held(local, requests', providers')
    BY <1>1, <2>1, <2>2 DEF Held, HoldsRequest
  <2> QED
    BY <1>2, <2>2, <2>3
<1>15. CASE SaveRequest(h) \/ SaveProvider(h) \/ Abort(h)
  BY <1>3, <1>15 DEF SaveRequest, SaveProvider, Abort
<1>16. CASE OneSaveFails(h)
  <2>1. PICK left \in { "assignSaveRequest", "assignSaveProvider" } :
          Goes(h, [me EXCEPT !.pc = left])
    BY <1>16 DEF OneSaveFails
  <2> DEFINE local == [me EXCEPT !.pc = left]
  <2>2. /\ local.pc = left /\ local.req = me.req
        /\ local.rload = me.rload /\ local.rdoc = me.rdoc
        /\ local.prov = me.prov /\ local.pload = me.pload
        /\ local.pdoc = me.pdoc
    BY <1>1 DEF HandlerState
  <2>3. /\ Goes(h, local) /\ me.pc = "assignSaveBoth"
        /\ UNCHANGED << requests, providers >>
    BY <1>16, <2>1 DEF OneSaveFails
  <2> HIDE DEF local
  <2>4. Held(local, requests, providers)
    BY <1>1, <2>2, <2>3 DEF Held, HoldsRequest
  <2> QED
    BY <1>2, <2>3, <2>4
<1> QED
  BY <1>5, <1>6, <1>7, <1>9, <1>10, <1>11, <1>12, <1>13, <1>14, <1>15, <1>16
  DEF Continue

LEMMA AloneInvInductive ==
  ASSUME OneHandler
  PROVE  /\ Init => AloneInv
         /\ AloneInv /\ [Next]_vars => AloneInv'
<1>1. Apart
  BY DEF Apart
<1>2. ASSUME Init PROVE AloneInv
  BY <1>1, <1>2, SerialInvInductive, IdleHeld DEF AloneInv, Init
<1>3. ASSUME AloneInv, [Next]_vars PROVE AloneInv'
  <2>1. SerialInv'
    BY <1>1, <1>3, SerialInvInductive DEF AloneInv
  <2>2. CASE UNCHANGED vars
    BY <1>3, <2>1, <2>2 DEF AloneInv, vars
  <2>3. CASE Next
    BY <1>3, <2>1, <2>3, AcceptHeld, ContinueHeld DEF Next, AloneInv
  <2> QED
    BY <1>3, <2>2, <2>3
<1> QED
  BY <1>2, <1>3

-----------------------------------------------------------------------------
(***************************************************************************)
(* One handler at a time, no finished job is missing from its provider's   *)
(* count.  A completion is counted before it is stored: in between, the    *)
(* handler owes the provider a job, which a crash may leave counted for    *)
(* nothing, but never the other way round.                                 *)
(***************************************************************************)
Owes(local, p) ==
  /\ local.pc = "saveRequest"
  /\ local.rdoc.status = "COMPLETED"
  /\ local.rdoc.assignedProviderId = p

Credited(p) ==
  /\ IsFiniteSet(CompletedJobs(p))
  /\ Cardinality(CompletedJobs(p)) <= providers[p].totalCompletedRequests
  /\ \A h \in Handler : Owes(handler[h], p) =>
       Cardinality(CompletedJobs(p)) < providers[p].totalCompletedRequests

CountInv == AloneInv /\ \A p \in Provider : Credited(p)

\* Requests that are not saved as COMPLETED add to nobody's finished jobs.
LEMMA JobsOnlyShrink ==
  ASSUME NEW p, \A r \in Request :
                  \/ requests'[r] = requests[r]
                  \/ requests'[r].status # "COMPLETED"
  PROVE  CompletedJobs(p)' \subseteq CompletedJobs(p)
BY DEF CompletedJobs

\* A step that finishes no job and owes none.
LEMMA CountQuiet ==
  ASSUME OneHandler, CountInv, NEW h \in Handler, NEW local, Goes(h, local),
         TypeInv', NEW p \in Provider,
         CompletedJobs(p)' \subseteq CompletedJobs(p),
         providers'[p].totalCompletedRequests = providers[p].totalCompletedRequests,
         ~ Owes(local, p)
  PROVE  Credited(p)'
<1>1. \A g \in Handler : handler'[g] = local
  BY OnlySlot DEF CountInv, AloneInv, SerialInv
<1>2. /\ IsFiniteSet(CompletedJobs(p)) /\ providers[p].totalCompletedRequests \in Nat
      /\ Cardinality(CompletedJobs(p)) <= providers[p].totalCompletedRequests
  BY DEF CountInv, Credited, AloneInv, SerialInv, TypeInv, TypeOK, ProviderDoc
<1>3. /\ IsFiniteSet(CompletedJobs(p)')
      /\ Cardinality(CompletedJobs(p)') <= Cardinality(CompletedJobs(p))
  BY <1>2, FS_Subset
<1>4. Cardinality(CompletedJobs(p)') \in Nat /\ Cardinality(CompletedJobs(p)) \in Nat
  BY <1>2, <1>3, FS_CardinalityType
<1>5. Cardinality(CompletedJobs(p)') <= providers'[p].totalCompletedRequests
  BY <1>2, <1>3, <1>4
<1> QED
  BY <1>1, <1>3, <1>5 DEF Credited

\* One more element adds one at most.
LEMMA OneMore ==
  ASSUME NEW S, NEW x, IsFiniteSet(S)
  PROVE  /\ IsFiniteSet(S \cup { x })
         /\ Cardinality(S \cup { x }) <= Cardinality(S) + 1
<1>1. /\ IsFiniteSet(S \cup { x }) /\ Cardinality(S) \in Nat
      /\ \/ Cardinality(S \cup { x }) = Cardinality(S)
         \/ Cardinality(S \cup { x }) = Cardinality(S) + 1
  BY FS_AddElement, FS_CardinalityType
<1> QED
  BY <1>1

LEMMA AcceptCounted ==
  ASSUME OneHandler, CountInv, NEW h \in Handler, Accept(h), NEW p \in Provider
  PROVE  Credited(p)'
<1>1. /\ \A r \in Request : requests[r] \in RequestDoc
      /\ requests \in [Request -> RequestDoc]
      /\ TypeInv /\ TypeInv' /\ UNCHANGED providers
  BY AcceptTypeInv, SlotFacts DEF CountInv, AloneInv, SerialInv, TypeInv, TypeOK,
     Accept, CreateInsert, CancelLoad, UpdateStatusLoad, AssignLoad,
     AvailabilityLoad, KycLoad
<1>2. UNCHANGED requests => CompletedJobs(p)' \subseteq CompletedJobs(p)
  BY DEF CompletedJobs
<1>3. ASSUME NEW local, Goes(h, local), UNCHANGED requests, ~ Owes(local, p)
      PROVE  Credited(p)'
  BY <1>1, <1>2, <1>3, CountQuiet
<1>4. ASSUME NEW r \in Request, CreateInsert(h, r) PROVE Credited(p)'
  <2> DEFINE local == [Idle EXCEPT !.pc = "saveSearching", !.op = "create",
                                   !.req = r, !.rload = NewRequest,
                                   !.rdoc = [NewRequest EXCEPT
                                               !.status = "SEARCHING_PROVIDER"]]
  <2>1. Goes(h, local)
    BY <1>4 DEF CreateInsert
  <2>2. ~ Owes(local, p)
    BY DEF Owes, Idle
  <2>3. \A x \in Request : \/ requests'[x] = requests[x]
                           \/ requests'[x].status # "COMPLETED"
    BY <1>1, <1>4 DEF CreateInsert, NewRequest, AbsentRequest
  <2> HIDE DEF local
  <2> QED
    BY <1>1, <2>1, <2>2, <2>3, JobsOnlyShrink, CountQuiet
<1>5. ASSUME NEW r \in Request, CancelLoad(h, r) PROVE Credited(p)'
  <2> DEFINE me == [Idle EXCEPT !.pc = "releaseLoad", !.op = "cancel",
                                !.req = r, !.rload = requests[r],
                                !.rdoc = requests[r]]
  <2>1. UNCHANGED requests /\ (Goes(h, me) \/ Goes(h, Cancelling(me)))
    BY <1>5 DEF CancelLoad
  <2>2. ~ Owes(me, p)
    BY DEF Owes, Idle
  <2>3. me \in HandlerState
    BY <1>1, DocConstantsType DEF HandlerState, PC, HandlerOp
  <2> HIDE DEF me
  <2>4. ~ Owes(Cancelling(me), p)
    BY <2>3 DEF Owes, Cancelling, HandlerState, RequestDoc
  <2> QED
    BY <1>3, <2>1, <2>2, <2>4
\* A completion that owes the provider nothing yet, or concerns nobody.
<1>6. ASSUME NEW r \in Request, NEW to \in BreakdownStatus,
             UpdateStatusLoad(h, r, to)
      PROVE  Credited(p)'
  <2> DEFINE doc == requests[r]
             edited == StatusEdit(doc, to)
             pc == IF to = "COMPLETED" /\ doc.assignedProviderId # NoProvider
                     THEN "completeLoad" ELSE "saveRequest"
             local == [Idle EXCEPT !.pc = pc, !.op = "status", !.req = r,
                                   !.rload = doc, !.rdoc = edited]
  <2>1. Goes(h, local) /\ UNCHANGED requests
    BY <1>6 DEF UpdateStatusLoad
  <2>2. /\ edited.status = to
        /\ edited.assignedProviderId = doc.assignedProviderId
    BY <1>1 DEF StatusEdit, RequestDoc
  <2>3. pc = "saveRequest" => to # "COMPLETED" \/ doc.assignedProviderId = NoProvider
    OBVIOUS
  <2> HIDE DEF edited, pc
  <2>4. local.pc = pc /\ local.rdoc = edited
    BY DEF Idle
  <2> HIDE DEF local
  <2>5. ~ Owes(local, p)
    BY <2>2, <2>3, <2>4, DispatchAssumption DEF Owes
  <2> QED
    BY <1>3, <2>1, <2>5
<1>7. ASSUME NEW r \in Request, NEW q \in Provider, AssignLoad(h, r, q)
      PROVE  Credited(p)'
  <2> DEFINE local == [Idle EXCEPT !.pc = "loadProvider", !.op = "assign",
                                   !.req = r, !.rload = requests[r],
                                   !.rdoc = requests[r], !.prov = q]
  <2>1. Goes(h, local) /\ UNCHANGED requests
    BY <1>7 DEF AssignLoad
  <2>2. ~ Owes(local, p)
    BY DEF Owes, Idle
  <2> HIDE DEF local
  <2> QED
    BY <1>3, <2>1, <2>2
<1>8. ASSUME NEW q \in Provider, NEW edited, ProfileEdit(h, q, edited),
             UNCHANGED requests
      PROVE  Credited(p)'
  <2> DEFINE local == [Idle EXCEPT !.pc = "saveProvider", !.op = "profile",
                                   !.prov = q, !.pload = providers[q],
                                   !.pdoc = edited]
  <2>1. Goes(h, local)
    BY <1>8 DEF ProfileEdit
  <2>2. ~ Owes(local, p)
    BY DEF Owes, Idle
  <2> HIDE DEF local
  <2> QED
    BY <1>3, <1>8, <2>1, <2>2
<1> QED
  <2>1. ASSUME NEW q \in Provider, NEW a, NEW o, AvailabilityLoad(h, q, a, o)
        PROVE  Credited(p)'
    BY <1>8, <2>1 DEF AvailabilityLoad
  <2>2. ASSUME NEW q \in Provider, NEW k, KycLoad(h, q, k)
        PROVE  Credited(p)'
    BY <1>8, <2>2 DEF KycLoad
  <2> QED
    BY <1>4, <1>5, <1>6, <1>7, <2>1, <2>2, Zenon DEF Accept

LEMMA ContinueCounted ==
  ASSUME OneHandler, CountInv, NEW h \in Handler,
         Continue(h) \/ Abort(h) \/ OneSaveFails(h), NEW p \in Provider
  PROVE  Credited(p)'
<1> DEFINE me == handler[h]
           jobs == CompletedJobs(p)
           total == providers[p].totalCompletedRequests
<1>1. /\ SlotOK(me) /\ me \in HandlerState /\ Held(me, requests, providers)
      /\ me.rdoc \in RequestDoc
      /\ me.pload \in ProviderDoc /\ me.pdoc \in ProviderDoc
      /\ providers \in [Provider -> ProviderDoc]
      /\ requests \in [Request -> RequestDoc]
      /\ AloneInv /\ SerialInv /\ TypeInv /\ TypeInv' /\ Legal(me)
  BY SlotFacts, ContinueTypeInv DEF CountInv, AloneInv, SerialInv, TypeInv, TypeOK
<1>2. /\ IsFiniteSet(jobs) /\ Cardinality(jobs) \in Nat /\ total \in Nat
      /\ Cardinality(jobs) <= total
      /\ Owes(me, p) => Cardinality(jobs) < total
  BY <1>1, FS_CardinalityType DEF CountInv, Credited, ProviderDoc
<1>3. UNCHANGED requests => jobs' = jobs
  BY DEF CompletedJobs
\* The saves of a request that is not finished.
<1>4. ASSUME StoreRequest(h), me.pc \in HoldsRequest, me.rdoc.status # "COMPLETED"
      PROVE  jobs' \subseteq jobs
  <2>1. \A r \in Request : \/ requests'[r] = requests[r]
                           \/ requests'[r].status # "COMPLETED"
    BY <1>1, <1>4, StoreRequestAlone
  <2> QED
    BY <2>1, JobsOnlyShrink
<1>5. ASSUME NEW local, Goes(h, local), jobs' \subseteq jobs,
             providers'[p].totalCompletedRequests = total, ~ Owes(local, p)
      PROVE  Credited(p)'
  BY <1>1, <1>5, CountQuiet
<1>6. ~ Owes(Idle, p)
  BY DEF Owes, Idle
<1>7. ASSUME NEW pc \in PC \ { "saveRequest" }, NEW local,
             local = [me EXCEPT !.pc = pc]
      PROVE  ~ Owes(local, p)
  BY <1>1, <1>7 DEF Owes, HandlerState
<1>8. ~ Owes(Cancelling(me), p)
  BY <1>1 DEF Owes, Cancelling, HandlerState, RequestDoc
<1>9. \A q, doc : ~ Owes(assignProviderToRequest(me, q, doc), p)
  BY <1>1, <1>6 DEF Owes, assignProviderToRequest, HandlerState
<1>10. CASE CreateSaveSearching(h)
  <2> DEFINE local == [me EXCEPT !.pc = "findNearest", !.rload = me.rdoc]
  <2>1. ~ Owes(local, p)
    BY <1>1 DEF Owes, HandlerState
  <2>2. Goes(h, local) /\ UNCHANGED providers /\ jobs' \subseteq jobs
    BY <1>1, <1>4, <1>10 DEF CreateSaveSearching, HoldsRequest, Legal
  <2> HIDE DEF local
  <2> QED
    BY <1>5, <2>1, <2>2
<1>11. CASE FindNearest(h)
  BY <1>3, <1>5, <1>6, <1>9, <1>11 DEF FindNearest
<1>12. CASE AssignLoadProvider(h)
  <2> DEFINE doc == providers[me.prov]
             local == [me EXCEPT !.pc = "releaseLoad", !.pload = doc, !.pdoc = doc]
  <2>1. ~ Owes(local, p)
    BY <1>1 DEF Owes, HandlerState
  <2> HIDE DEF local
  <2> QED
    BY <1>3, <1>5, <1>9, <1>12, <2>1 DEF AssignLoadProvider, local
<1>13. ~ Owes(AfterRelease(me), p)
  BY <1>8, <1>9 DEF AfterRelease
<1>14. CASE ReleaseLoad(h)
  BY <1>3, <1>5, <1>7, <1>13, <1>14 DEF ReleaseLoad, PC
<1>15. CASE ReleaseSave(h)
  <2>1. providers'[p].totalCompletedRequests = total
    BY <1>1, <1>15 DEF ReleaseSave, ProviderDoc
  <2> QED
    BY <1>3, <1>5, <1>13, <1>15, <2>1 DEF ReleaseSave
<1>16. CASE AssignSaveRequest(h)
  <2>1. me.rdoc.status # "COMPLETED" /\ me.pc \in HoldsRequest
    BY <1>1, <1>16 DEF AssignSaveRequest, Held, HoldsRequest
  <2> QED
    BY <1>4, <1>5, <1>6, <1>7, <1>16, <2>1 DEF AssignSaveRequest, PC
<1>17. CASE AssignSaveProvider(h)
  <2>1. providers'[p].totalCompletedRequests = total
    <3>1. me.pdoc.totalCompletedRequests = me.pload.totalCompletedRequests
      BY <1>1, <1>17 DEF AssignSaveProvider, Held, ProviderDoc
    <3> QED
      BY <1>1, <1>17, <3>1, StoreProviderAlone DEF AssignSaveProvider
  <2> QED
    BY <1>3, <1>5, <1>6, <1>7, <1>17, <2>1 DEF AssignSaveProvider, PC
<1>18. CASE CompleteLoad(h)
  <2> DEFINE q == me.rdoc.assignedProviderId
             doc == providers[q]
             edited == JobDone(doc)
             local == [me EXCEPT !.pc = "completeSave", !.prov = q,
                                 !.pload = doc, !.pdoc = edited]
  <2>1. Goes(h, local) /\ UNCHANGED << requests, providers >>
    BY <1>18 DEF CompleteLoad
  <2> HIDE DEF q, doc, edited
  <2>2. ~ Owes(local, p)
    BY <1>1 DEF Owes, HandlerState
  <2> HIDE DEF local
  <2> QED
    BY <1>3, <1>5, <2>1, <2>2
\* The job is counted ...
<1>19. CASE CompleteSave(h)
  <2> DEFINE local == [me EXCEPT !.pc = "saveRequest", !.prov = NoProvider,
                                 !.pload = OnboardedProvider,
                                 !.pdoc = OnboardedProvider]
  <2>1. /\ Goes(h, local) /\ me.pc = "completeSave" /\ UNCHANGED requests
        /\ StoreProvider(h)
    BY <1>19 DEF CompleteSave
  <2>2. local.pc = "saveRequest" /\ local.rdoc = me.rdoc
    BY <1>1 DEF HandlerState
  <2> HIDE DEF local
  <2>3. /\ me.prov = me.rdoc.assignedProviderId
        /\ me.pdoc.totalCompletedRequests = providers[me.prov].totalCompletedRequests + 1
    BY <1>1, <2>1 DEF Held, JobDone, ProviderDoc
  <2>4. providers'[p].totalCompletedRequests =
          IF p = me.rdoc.assignedProviderId THEN total + 1 ELSE total
    BY <1>1, <2>1, <2>3, StoreProviderAlone
  <2>5. CASE p = me.rdoc.assignedProviderId
    <3>1. \A g \in Handler : handler'[g] = local
      BY <1>1, <2>1, OnlySlot
    <3>2. Cardinality(jobs) < total + 1
      BY <1>2
    <3> QED
      BY <1>2, <1>3, <2>1, <2>4, <2>5, <3>1, <3>2 DEF Credited
  <2>6. CASE p # me.rdoc.assignedProviderId
    BY <1>3, <1>5, <2>1, <2>2, <2>4, <2>6 DEF Owes
  <2> QED
    BY <2>5, <2>6
\* ... and then stored.
<1>20. CASE SaveRequest(h)
  <2>1. /\ Goes(h, Idle) /\ StoreRequest(h) /\ UNCHANGED providers
        /\ me.pc = "saveRequest" /\ me.pc \in HoldsRequest
    BY <1>20 DEF SaveRequest, HoldsRequest
  <2>2. /\ requests'[me.req] = me.rdoc
        /\ \A r \in Request : r # me.req => requests'[r] = requests[r]
    BY <1>1, <2>1, StoreRequestAlone
  <2>3. CASE Owes(me, p)
    <3>1. jobs' \subseteq jobs \cup { me.req }
      BY <2>2 DEF CompletedJobs
    <3>2. /\ IsFiniteSet(jobs \cup { me.req })
          /\ Cardinality(jobs \cup { me.req }) <= Cardinality(jobs) + 1
      BY <1>2, OneMore
    <3>3. IsFiniteSet(jobs') /\ Cardinality(jobs') <= Cardinality(jobs \cup { me.req })
      BY <3>1, <3>2, FS_Subset
    <3>4. Cardinality(jobs') \in Nat /\ Cardinality(jobs \cup { me.req }) \in Nat
      BY <3>2, <3>3, FS_CardinalityType
    <3>5. Cardinality(jobs') <= total
      BY <1>2, <2>3, <3>2, <3>3, <3>4
    <3>6. \A g \in Handler : handler'[g] = Idle
      BY <1>1, <2>1, OnlySlot
    <3> QED
      BY <1>6, <2>1, <3>3, <3>5, <3>6 DEF Credited
  <2>4. CASE ~ Owes(me, p)
    <3>1. jobs' \subseteq jobs
      BY <2>1, <2>2, <2>4 DEF CompletedJobs, Owes
    <3> QED
      BY <1>5, <1>6, <2>1, <3>1
  <2> QED
    BY <2>3, <2>4
<1>21. CASE SaveProvider(h)
  <2>1. providers'[p].totalCompletedRequests = total
    <3>1. me.pdoc.totalCompletedRequests = me.pload.totalCompletedRequests
      BY <1>1, <1>21 DEF SaveProvider, Held
    <3> QED
      BY <1>1, <1>21, <3>1, StoreProviderAlone DEF SaveProvider
  <2> QED
    BY <1>3, <1>5, <1>6, <1>21, <2>1 DEF SaveProvider
<1>22. CASE Abort(h)
  BY <1>3, <1>5, <1>6, <1>22 DEF Abort
<1>23. CASE OneSaveFails(h)
  BY <1>3, <1>5, <1>7, <1>23 DEF OneSaveFails, PC
<1> QED
  BY <1>10, <1>11, <1>12, <1>14, <1>15, <1>16, <1>17, <1>18, <1>19, <1>20,
     <1>21, <1>22, <1>23 DEF Continue

LEMMA InitCount ==
  ASSUME OneHandler
  PROVE  Init => CountInv
<1> SUFFICES ASSUME Init PROVE CountInv
  OBVIOUS
<1>1. AloneInv
  BY AloneInvInductive
<1>2. ASSUME NEW p \in Provider PROVE Credited(p)
  <2>1. CompletedJobs(p) = {}
    BY DEF Init, CompletedJobs, AbsentRequest
  <2>2. IsFiniteSet({}) /\ Cardinality({}) = 0
    BY FS_EmptySet
  <2>3. providers[p].totalCompletedRequests = 0
    BY DEF Init, ReadyProvider, OnboardedProvider
  <2>4. \A h \in Handler : ~ Owes(handler[h], p)
    BY DEF Init, Owes, Idle
  <2> QED
    BY <2>1, <2>2, <2>3, <2>4 DEF Credited
<1> QED
  BY <1>1, <1>2 DEF CountInv

LEMMA StepCount ==
  ASSUME OneHandler
  PROVE  CountInv /\ [Next]_vars => CountInv'
<1> SUFFICES ASSUME CountInv, [Next]_vars PROVE CountInv'
  OBVIOUS
<1>1. AloneInv'
  BY AloneInvInductive DEF CountInv
<1>2. CASE UNCHANGED vars
  BY <1>1, <1>2 DEF CountInv, Credited, CompletedJobs, vars
<1>3. CASE Next
  BY <1>1, <1>3, AcceptCounted, ContinueCounted DEF Next, CountInv
<1> QED
  BY <1>2, <1>3

LEMMA CountCounted == CountInv => CompletionsCounted
BY DEF CountInv, Credited, CompletionsCounted

\* One handler at a time, and cut off wherever it may be: a provider's count
\* is never behind the finished jobs that name him.
THEOREM CompletionsAlwaysCounted ==
  ASSUME OneHandler
  PROVE  Spec => []CompletionsCounted
BY InitCount, StepCount, CountCounted, PTL DEF Spec

-----------------------------------------------------------------------------
(***************************************************************************)
(* One handler at a time, no faults, and nobody edits a profile or uses    *)
(* the status endpoint as an admin: between calls, what the provider       *)
(* documents say agrees with what the request documents say.               *)
(***************************************************************************)
Calm ==
  /\ OneHandler
  /\ ~ Faults
  /\ Ops \subseteq { "create", "providerStatus", "assign", "cancel" }

Active(p, reqs) ==
  { r \in Request : reqs[r].assignedProviderId = p /\ reqs[r].status \in EngagedStatus }

Done(p, reqs) ==
  { r \in Request : reqs[r].assignedProviderId = p /\ reqs[r].status = "COMPLETED" }

\* What the two collections say of p.
Books(p, reqs, provs, availability, active, owed) ==
  /\ provs[p].availabilityStatus = availability
  /\ Active(p, reqs) = active
  /\ IsFiniteSet(Done(p, reqs))
  /\ provs[p].totalCompletedRequests = Cardinality(Done(p, reqs)) + owed

\* The two collections agree about p.
Settled(p, reqs, provs) ==
  \/ Books(p, reqs, provs, "AVAILABLE", {}, 0)
  \/ \E r \in Request : Books(p, reqs, provs, "BUSY", { r }, 0)

\* One of the handler's two documents is stored, the other is not.
Torn(local, p) ==
  \/ local.pc \in { "assignSaveRequest", "assignSaveProvider" } /\ local.prov = p
  \/ /\ local.pc = "saveRequest" /\ isTerminalStatus(local.rdoc.status)
     /\ local.rdoc.assignedProviderId = p

InBooks(local, p, reqs, provs) ==
  /\ local.pc = "assignSaveRequest" /\ local.prov = p =>
       Books(p, reqs, provs, "BUSY", {}, 0)
  /\ local.pc = "assignSaveProvider" /\ local.prov = p =>
       Books(p, reqs, provs, "AVAILABLE", { local.req }, 0)
  /\ local.pc = "saveRequest" /\ local.rdoc.assignedProviderId = p =>
       /\ local.rdoc.status = "CANCELLED" =>
            Books(p, reqs, provs, "AVAILABLE", { local.req }, 0)
       /\ local.rdoc.status = "COMPLETED" =>
            Books(p, reqs, provs, "AVAILABLE", { local.req }, 1)
  /\ ~ Torn(local, p) => Settled(p, reqs, provs)

\* Who is named was seeded, and a request names nobody until it is dispatched.
CalmDoc(doc) ==
  /\ doc.assignedProviderId \in SeededProvider \cup { NoProvider }
  /\ doc.status \in EngagedStatus \cup { "COMPLETED" } =>
       doc.assignedProviderId # NoProvider
  /\ doc.status \in Waiting \cup { "ABSENT" } => doc.assignedProviderId = NoProvider

SlotCalm(local) ==
  /\ local.pc \in HoldsRequest => CalmDoc(local.rdoc)
  /\ local.pc \in { "releaseLoad", "releaseSave" } => local.op = "cancel"
  /\ local.pc # "saveProvider"

CalmInv ==
  /\ AloneInv
  /\ \A r \in Request : CalmDoc(requests[r])
  /\ \A p \in Provider \ SeededProvider : providers[p].kycStatus # "VERIFIED"
  /\ \A h \in Handler : SlotCalm(handler[h])
  /\ \A p \in SeededProvider :
       /\ \A h \in Handler : InBooks(handler[h], p, requests, providers)
       /\ Handler = {} => Settled(p, requests, providers)

LEMMA EdgeFrom ==
  ASSUME NEW from \in BreakdownStatus \cup { "ABSENT" }, NEW to, Edge(from, to)
  PROVE  from \in Waiting \cup EngagedStatus
BY DEF Edge, canTransition, ALLOWED_TRANSITIONS, BreakdownStatus, Waiting,
   EngagedStatus

LEMMA SettledSame ==
  ASSUME NEW p, NEW reqs1, NEW reqs2, NEW provs1, NEW provs2,
         Active(p, reqs2) = Active(p, reqs1), Done(p, reqs2) = Done(p, reqs1),
         provs2[p] = provs1[p], Settled(p, reqs1, provs1)
  PROVE  Settled(p, reqs2, provs2)
BY DEF Settled, Books

LEMMA JobsUnchanged ==
  ASSUME NEW p, UNCHANGED requests
  PROVE  Active(p, requests') = Active(p, requests) /\ Done(p, requests') = Done(p, requests)
BY DEF Active, Done

\* One request is written: it joins or leaves the jobs of the one it names.
LEMMA JobsAfter ==
  ASSUME NEW p, NEW r \in Request,
         \A x \in Request : x # r => requests'[x] = requests[x]
  PROVE  /\ Active(p, requests') =
              IF requests'[r].assignedProviderId = p /\ requests'[r].status \in EngagedStatus
                THEN Active(p, requests) \cup { r } ELSE Active(p, requests) \ { r }
         /\ Done(p, requests') =
              IF requests'[r].assignedProviderId = p /\ requests'[r].status = "COMPLETED"
                THEN Done(p, requests) \cup { r } ELSE Done(p, requests) \ { r }
BY DEF Active, Done

\* All the invariant asks of a step.
LEMMA CalmStep ==
  ASSUME OneHandler, CalmInv, AloneInv', NEW h \in Handler, NEW local, Goes(h, local),
         SlotCalm(local),
         \A r \in Request : CalmDoc(requests'[r]),
         \A p \in Provider \ SeededProvider : providers'[p].kycStatus # "VERIFIED",
         \A p \in SeededProvider : InBooks(local, p, requests', providers')
  PROVE  CalmInv'
<1>1. \A g \in Handler : handler'[g] = local
  BY OnlySlot DEF CalmInv, AloneInv, SerialInv
<1> QED
  BY <1>1 DEF CalmInv

\* A step that writes nothing, of a handler that has torn nothing apart.
LEMMA CalmQuiet ==
  ASSUME OneHandler, CalmInv, AloneInv', NEW h \in Handler, NEW local, Goes(h, local),
         UNCHANGED << requests, providers >>, SlotCalm(local),
         \A p \in SeededProvider : ~ Torn(handler[h], p) /\ ~ Torn(local, p)
  PROVE  CalmInv'
<1>1. ASSUME NEW p \in SeededProvider
      PROVE  InBooks(local, p, requests', providers')
  <2>1. Settled(p, requests, providers)
    BY DEF CalmInv, InBooks
  <2>2. Settled(p, requests', providers')
    BY <2>1
  <2> QED
    BY <2>2 DEF InBooks, Torn, isTerminalStatus
<1>2. /\ \A r \in Request : CalmDoc(requests'[r])
      /\ \A p \in Provider \ SeededProvider : providers'[p].kycStatus # "VERIFIED"
  BY DEF CalmInv
<1> QED
  BY <1>1, <1>2, CalmStep

\* A handler that goes on with an assigned request is about a running job.
LEMMA WorksOn ==
  ASSUME CalmInv, NEW h \in Handler,
         handler[h].pc \in { "completeLoad", "completeSave", "releaseLoad",
                             "releaseSave", "saveRequest" },
         handler[h].rdoc.assignedProviderId # NoProvider
  PROVE  /\ handler[h].rdoc.assignedProviderId \in SeededProvider
         /\ handler[h].req \in Request
         /\ handler[h].req \in Active(handler[h].rdoc.assignedProviderId, requests)
<1> DEFINE me == handler[h]
<1>1. /\ me.req \in Request /\ me.rload = requests[me.req]
      /\ me.rload \in RequestDoc
      /\ me.rdoc.assignedProviderId = me.rload.assignedProviderId
      /\ CalmDoc(me.rload) /\ CalmDoc(me.rdoc)
      /\ me.pc \in { "releaseLoad", "releaseSave" } => me.op = "cancel"
      /\ Legal(me)
  BY SlotFacts DEF CalmInv, AloneInv, SerialInv, Held, SlotCalm, HoldsRequest
<1>2. \E to : Edge(me.rload.status, to)
  BY <1>1 DEF Legal
<1>3. me.rload.status \in EngagedStatus
  BY <1>1, <1>2, EdgeFrom DEF CalmDoc, RequestDoc
<1> QED
  BY <1>1, <1>3 DEF Active, CalmDoc

LEMMA BusyWith ==
  ASSUME NEW p, NEW reqs, NEW provs, NEW r \in Active(p, reqs),
         Settled(p, reqs, provs)
  PROVE  Books(p, reqs, provs, "BUSY", { r }, 0)
BY DEF Settled, Books

LEMMA AssignCalm ==
  ASSUME CalmInv, NEW me \in HandlerState, CalmDoc(me.rdoc), NEW p \in Provider,
         me.pc # "saveProvider"
  PROVE  LET local == assignProviderToRequest(me, p, providers[p]) IN
         SlotCalm(local) /\ \A q \in SeededProvider : ~ Torn(local, q)
<1>1. CASE mayBeAssigned(providers[p])
  <2> DEFINE local == assignProviderToRequest(me, p, providers[p])
  <2>1. /\ local.pc = "assignSaveBoth"
        /\ local.rdoc.assignedProviderId = p
        /\ local.rdoc.status = "PROVIDER_ASSIGNED"
    BY <1>1 DEF assignProviderToRequest, HandlerState, RequestDoc
  <2>2. p \in SeededProvider
    BY <1>1 DEF CalmInv, mayBeAssigned
  <2> HIDE DEF local
  <2>3. SlotCalm(local) /\ \A q \in SeededProvider : ~ Torn(local, q)
    BY <2>1, <2>2, DispatchAssumption DEF SlotCalm, CalmDoc, Torn, Waiting
  <2> QED
    BY <2>3 DEF local
<1>2. CASE ~ mayBeAssigned(providers[p])
  BY <1>2 DEF assignProviderToRequest, SlotCalm, Torn, Idle, HoldsRequest
<1> QED
  BY <1>1, <1>2

LEMMA IdleCalm == SlotCalm(Idle) /\ \A p : ~ Torn(Idle, p)
BY DEF SlotCalm, Torn, Idle, HoldsRequest

\* The calls of a calm world: the operations that are offered are calm, or
\* the call that was accepted is.
CalmOps == { "create", "providerStatus", "assign", "cancel" }

LEMMA AcceptCalm ==
  ASSUME OneHandler, CalmInv, AloneInv', NEW h \in Handler, Accept(h),
         handler[h].pc = "idle",
         Ops \subseteq CalmOps \/ CalmCall(handler'[h])
  PROVE  CalmInv'
<1>1. /\ \A r \in Request : requests[r] \in RequestDoc /\ CalmDoc(requests[r])
      /\ requests \in [Request -> RequestDoc]
      /\ handler \in [Handler -> HandlerState]
      /\ \A p : ~ Torn(handler[h], p)
  BY SlotFacts DEF CalmInv, AloneInv, SerialInv, TypeInv, TypeOK, Torn
<1>2. ASSUME NEW local, Goes(h, local), UNCHANGED << requests, providers >>,
             SlotCalm(local), \A p \in SeededProvider : ~ Torn(local, p)
      PROVE  CalmInv'
  BY <1>1, <1>2, CalmQuiet
<1>3. ASSUME NEW r \in Request, CreateInsert(h, r) PROVE CalmInv'
  <2> DEFINE searching == [NewRequest EXCEPT !.status = "SEARCHING_PROVIDER"]
             local == [Idle EXCEPT !.pc = "saveSearching", !.op = "create",
                                   !.req = r, !.rload = NewRequest,
                                   !.rdoc = searching]
  <2>1. /\ Goes(h, local) /\ UNCHANGED providers /\ requests[r] = AbsentRequest
        /\ requests'[r] = NewRequest
        /\ \A x \in Request : x # r => requests'[x] = requests[x]
    BY <1>1, <1>3 DEF CreateInsert
  <2>2. /\ searching.status = "SEARCHING_PROVIDER"
        /\ searching.assignedProviderId = NoProvider
        /\ NewRequest.status = "CREATED"
        /\ NewRequest.assignedProviderId = NoProvider
        /\ AbsentRequest.status = "ABSENT"
    BY DEF NewRequest, AbsentRequest
  <2> HIDE DEF searching
  <2>3. local.pc = "saveSearching" /\ local.rdoc = searching
    BY DEF Idle
  <2> HIDE DEF local
  <2>4. CalmDoc(NewRequest) /\ CalmDoc(searching)
    BY <2>2 DEF CalmDoc, EngagedStatus
  <2>5. SlotCalm(local) /\ \A p : ~ Torn(local, p)
    BY <2>3, <2>4 DEF SlotCalm, Torn
  <2>6. ASSUME NEW p \in SeededProvider
        PROVE  InBooks(local, p, requests', providers')
    <3>1. Settled(p, requests, providers)
      BY <1>1 DEF CalmInv, InBooks
    <3>2. r \notin Active(p, requests) /\ r \notin Done(p, requests)
      BY <2>1, <2>2 DEF Active, Done, EngagedStatus
    <3>3. /\ Active(p, requests') = Active(p, requests)
          /\ Done(p, requests') = Done(p, requests)
      <4>1. NewRequest.status \notin EngagedStatus \cup { "COMPLETED" }
        BY <2>2 DEF EngagedStatus
      <4>2. /\ Active(p, requests') = Active(p, requests) \ { r }
            /\ Done(p, requests') = Done(p, requests) \ { r }
        BY <2>1, <4>1, JobsAfter
      <4> QED
        BY <3>2, <4>2
    <3>4. Settled(p, requests', providers')
      BY <2>1, <3>1, <3>3, SettledSame
    <3> QED
      BY <2>3, <3>4 DEF InBooks
  <2>7. /\ \A x \in Request : CalmDoc(requests'[x])
        /\ \A p \in Provider \ SeededProvider : providers'[p].kycStatus # "VERIFIED"
    BY <1>1, <2>1, <2>4 DEF CalmInv
  <2> QED
    BY <2>1, <2>5, <2>6, <2>7, CalmStep
<1>4. ASSUME NEW r \in Request, CancelLoad(h, r) PROVE CalmInv'
  <2> DEFINE me == [Idle EXCEPT !.pc = "releaseLoad", !.op = "cancel",
                                !.req = r, !.rload = requests[r],
                                !.rdoc = requests[r]]
  <2>1. /\ UNCHANGED << requests, providers >>
        /\ IF requests[r].assignedProviderId = NoProvider
             THEN Goes(h, Cancelling(me)) ELSE Goes(h, me)
    BY <1>4 DEF CancelLoad
  <2>2. me.pc = "releaseLoad" /\ me.op = "cancel" /\ me.rdoc = requests[r]
    BY DEF Idle
  <2>3. me \in HandlerState
    BY <1>1, DocConstantsType DEF HandlerState, PC, HandlerOp
  <2> HIDE DEF me
  <2>4. SlotCalm(me) /\ \A p : ~ Torn(me, p)
    BY <1>1, <2>2 DEF SlotCalm, Torn
  <2>5. /\ Cancelling(me).pc = "saveRequest"
        /\ Cancelling(me).rdoc.status = "CANCELLED"
        /\ Cancelling(me).rdoc.assignedProviderId = requests[r].assignedProviderId
    BY <2>2, <2>3 DEF Cancelling, HandlerState, RequestDoc
  <2>6. SlotCalm(Cancelling(me))
    BY <1>1, <2>5 DEF SlotCalm, CalmDoc, EngagedStatus, Waiting
  <2>7. requests[r].assignedProviderId = NoProvider =>
          \A p \in SeededProvider : ~ Torn(Cancelling(me), p)
    BY <2>5, DispatchAssumption DEF Torn
  <2> QED
    BY <1>2, <2>1, <2>4, <2>6, <2>7
\* The assigned provider reports progress on a running job.
<1>5. ASSUME NEW r \in Request, NEW to \in BreakdownStatus,
             UpdateStatusLoad(h, r, to)
      PROVE  CalmInv'
  <2> DEFINE doc == requests[r]
             edited == StatusEdit(doc, to)
             pc == IF to = "COMPLETED" /\ doc.assignedProviderId # NoProvider
                     THEN "completeLoad" ELSE "saveRequest"
             local == [Idle EXCEPT !.pc = pc, !.op = "status", !.req = r,
                                   !.rload = doc, !.rdoc = edited]
  <2>1. Goes(h, local) /\ UNCHANGED << requests, providers >>
    BY <1>5 DEF UpdateStatusLoad
  <2>2. /\ edited.status = to
        /\ edited.assignedProviderId = doc.assignedProviderId
    BY <1>1 DEF StatusEdit, RequestDoc
  <2>3. doc.assignedProviderId \in Provider /\ to \in PROVIDER_PROGRESS_STATUSES
    <3>1. CASE Ops \subseteq CalmOps
      BY <1>5, <3>1 DEF UpdateStatusLoad, MayUpdateStatus, CalmOps
    <3>2. CASE CalmCall(handler'[h])
      <4>1. handler'[h] = local
        BY <1>1, <2>1 DEF Goes
      <4>2. local.op = "status" /\ local.rload = doc /\ local.rdoc = edited
        BY DEF Idle
      <4> QED
        BY <2>2, <3>2, <4>1, <4>2 DEF CalmCall
    <3> QED
      BY <3>1, <3>2
  <2>4. /\ pc = IF to = "COMPLETED" THEN "completeLoad" ELSE "saveRequest"
        /\ to # "CANCELLED" /\ to \notin Waiting \cup { "ABSENT" }
    BY <2>3, DispatchAssumption DEF PROVIDER_PROGRESS_STATUSES, Waiting
  <2> HIDE DEF edited, pc
  <2>5. local.pc = pc /\ local.rdoc = edited
    BY DEF Idle
  <2> HIDE DEF local
  <2>6. SlotCalm(local) /\ \A p : ~ Torn(local, p)
    BY <1>1, <2>2, <2>3, <2>4, <2>5, DispatchAssumption
    DEF SlotCalm, CalmDoc, Torn, isTerminalStatus
  <2> QED
    BY <1>2, <2>1, <2>6
<1>6. ASSUME NEW r \in Request, NEW p \in Provider, AssignLoad(h, r, p)
      PROVE  CalmInv'
  <2> DEFINE local == [Idle EXCEPT !.pc = "loadProvider", !.op = "assign",
                                   !.req = r, !.rload = requests[r],
                                   !.rdoc = requests[r], !.prov = p]
  <2>1. Goes(h, local) /\ UNCHANGED << requests, providers >>
    BY <1>6 DEF AssignLoad
  <2>2. local.pc = "loadProvider" /\ local.rdoc = requests[r]
    BY DEF Idle
  <2> HIDE DEF local
  <2>3. SlotCalm(local) /\ \A q : ~ Torn(local, q)
    BY <1>1, <2>2 DEF SlotCalm, Torn
  <2> QED
    BY <1>2, <2>1, <2>3
\* Nobody edits a profile.
<1>7. ASSUME NEW p \in Provider, NEW doc, ProfileEdit(h, p, doc)
      PROVE  ~ CalmCall(handler'[h])
  BY <1>1, <1>7 DEF ProfileEdit, Goes, Idle, CalmCall
<1>8. \A p \in Provider : \A a, o : ~ AvailabilityLoad(h, p, a, o)
  BY <1>7 DEF AvailabilityLoad, CalmOps
<1>9. \A p \in Provider : \A k : ~ KycLoad(h, p, k)
  BY <1>7 DEF KycLoad, CalmOps
<1> QED
  BY <1>3, <1>4, <1>5, <1>6, <1>7, <1>8, <1>9 DEF Accept

LEMMA ContinueCalm ==
  ASSUME OneHandler, CalmInv, AloneInv', NEW h \in Handler, Continue(h)
  PROVE  CalmInv'
<1> DEFINE me == handler[h]
<1>1. /\ SlotOK(me) /\ me \in HandlerState /\ Held(me, requests, providers)
      /\ me.rload \in RequestDoc /\ me.rdoc \in RequestDoc
      /\ me.pload \in ProviderDoc /\ me.pdoc \in ProviderDoc
      /\ \A p \in Provider : providers[p] \in ProviderDoc
      /\ providers \in [Provider -> ProviderDoc]
      /\ AloneInv /\ TypeInv /\ Legal(me) /\ SlotCalm(me)
      /\ SeededProvider \subseteq Provider /\ NoProvider \notin SeededProvider
  BY SlotFacts, DispatchAssumption DEF CalmInv, AloneInv, SerialInv, TypeInv, TypeOK
<1>2. /\ \A r \in Request : CalmDoc(requests[r])
      /\ \A p \in Provider \ SeededProvider : providers[p].kycStatus # "VERIFIED"
      /\ \A p \in SeededProvider : InBooks(me, p, requests, providers)
  BY DEF CalmInv
<1>3. ASSUME NEW local, Goes(h, local), UNCHANGED << requests, providers >>,
             SlotCalm(local),
             \A p \in SeededProvider : ~ Torn(me, p) /\ ~ Torn(local, p)
      PROVE  CalmInv'
  BY <1>3, CalmQuiet
\* The save of the request: who is not named by it does not notice.
<1>4. ASSUME StoreRequest(h), me.pc \in HoldsRequest
      PROVE  /\ me.req \in Request /\ me.rload = requests[me.req]
             /\ requests'[me.req] = me.rdoc
             /\ \A x \in Request : x # me.req => requests'[x] = requests[x]
             /\ CalmDoc(me.rload) /\ CalmDoc(me.rdoc)
             /\ \A x \in Request : CalmDoc(requests'[x])
  BY <1>1, <1>2, <1>4, StoreRequestAlone DEF Held, SlotCalm
<1>5. ASSUME StoreRequest(h), me.pc \in HoldsRequest, NEW p,
             me.rload.assignedProviderId # p, me.rdoc.assignedProviderId # p
      PROVE  /\ Active(p, requests') = Active(p, requests)
             /\ Done(p, requests') = Done(p, requests)
  <2>1. /\ Active(p, requests') = Active(p, requests) \ { me.req }
        /\ Done(p, requests') = Done(p, requests) \ { me.req }
    <3> DEFINE r == me.req
    <3>1. /\ r \in Request /\ requests'[r].assignedProviderId # p
          /\ \A x \in Request : x # r => requests'[x] = requests[x]
      BY <1>4, <1>5
    <3> HIDE DEF r, me
    <3>2. /\ Active(p, requests') = Active(p, requests) \ { r }
          /\ Done(p, requests') = Done(p, requests) \ { r }
      BY <3>1, JobsAfter
    <3> QED
      BY <3>2 DEF r
  <2>2. me.req \notin Active(p, requests) /\ me.req \notin Done(p, requests)
    BY <1>4, <1>5 DEF Active, Done
  <2> QED
    BY <2>1, <2>2
\* The save of a provider, who was seeded: nobody else notices.
<1>6. ASSUME StoreProvider(h),
             me.pc \in { "assignSaveBoth", "assignSaveProvider", "completeSave" }
      PROVE  /\ me.prov \in SeededProvider /\ me.pload = providers[me.prov]
             /\ providers'[me.prov] = me.pdoc
             /\ \A p \in Provider : p # me.prov => providers'[p] = providers[p]
             /\ \A p \in Provider \ SeededProvider :
                  providers'[p].kycStatus # "VERIFIED"
  <2>1. /\ me.prov \in Provider /\ me.pload = providers[me.prov]
        /\ providers'[me.prov] = me.pdoc
        /\ \A p \in Provider : p # me.prov => providers'[p] = providers[p]
    BY <1>1, <1>6, StoreProviderAlone
  <2>2. me.prov \in SeededProvider
    <3>1. CASE me.pc = "completeSave"
      BY <1>1, <3>1 DEF Held, SlotCalm, CalmDoc, HoldsRequest
    <3>2. CASE me.pc # "completeSave"
      BY <1>1, <1>2, <1>6, <2>1, <3>2 DEF Held, mayBeAssigned
    <3> QED
      BY <3>1, <3>2
  <2> QED
    BY <1>2, <2>1, <2>2
<1>7. CASE CreateSaveSearching(h)
  <2> DEFINE local == [me EXCEPT !.pc = "findNearest", !.rload = me.rdoc]
  <2>1. /\ StoreRequest(h) /\ Goes(h, local) /\ UNCHANGED providers
        /\ me.pc = "saveSearching" /\ me.pc \in HoldsRequest
    BY <1>7 DEF CreateSaveSearching, HoldsRequest
  <2>2. local.pc = "findNearest" /\ local.rdoc = me.rdoc
    BY <1>1 DEF HandlerState
  <2> HIDE DEF local
  <2>3. me.rdoc.status = "SEARCHING_PROVIDER" /\ me.rload.status \in Waiting
    BY <1>1, <2>1, EdgeFrom DEF Legal, Edge, canTransition,
       ALLOWED_TRANSITIONS, RequestDoc, BreakdownStatus, Waiting
  <2>4. /\ me.rdoc.assignedProviderId = NoProvider
        /\ me.rload.assignedProviderId = NoProvider
    BY <1>4, <2>1, <2>3 DEF CalmDoc, Waiting
  <2>5. ASSUME NEW p \in SeededProvider
        PROVE  InBooks(local, p, requests', providers')
    <3>1. Settled(p, requests, providers)
      BY <1>2, <2>1 DEF InBooks, Torn
    <3>2. Settled(p, requests', providers')
      BY <1>1, <1>5, <2>1, <2>4, <3>1, SettledSame
    <3> QED
      BY <2>2, <3>2 DEF InBooks
  <2>6. SlotCalm(local)
    BY <1>4, <2>1, <2>2 DEF SlotCalm
  <2> QED
    BY <1>2, <1>4, <2>1, <2>5, <2>6, CalmStep
<1>8. CASE FindNearest(h)
  <2>1. me.pc = "findNearest" /\ UNCHANGED << requests, providers >>
    BY <1>8 DEF FindNearest
  <2>2. (\A p \in SeededProvider : ~ Torn(me, p)) /\ CalmDoc(me.rdoc)
    BY <1>1, <2>1 DEF Torn, SlotCalm, HoldsRequest
  <2>3. ASSUME NEW q \in EligibleProviders,
               Goes(h, assignProviderToRequest(me, q, providers[q]))
        PROVE  CalmInv'
    <3>1. q \in Provider
      BY DEF EligibleProviders
    <3>2. LET local == assignProviderToRequest(me, q, providers[q]) IN
          SlotCalm(local) /\ \A p \in SeededProvider : ~ Torn(local, p)
      BY <1>1, <2>1, <2>2, <3>1, AssignCalm
    <3> QED
      BY <1>3, <2>1, <2>2, <2>3, <3>2
  <2> QED
    BY <1>3, <1>8, <2>1, <2>2, <2>3, IdleCalm DEF FindNearest
\* Nobody is released: the request waits for a provider, and names none.
<1>9. CASE AssignLoadProvider(h)
  <2> DEFINE local == assignProviderToRequest(me, me.prov, providers[me.prov])
  <2>1. /\ me.pc = "loadProvider" /\ UNCHANGED << requests, providers >>
        /\ me.prov \in Provider
    BY <1>1, <1>9 DEF AssignLoadProvider, SlotOK, NamesProvider
  <2>2. CalmDoc(me.rdoc) /\ me.rdoc.assignedProviderId = NoProvider
    BY <1>1, <2>1 DEF SlotCalm, HoldsRequest, Legal, CalmDoc
  <2>3. Goes(h, local)
    BY <1>9, <2>2 DEF AssignLoadProvider
  <2>4. /\ SlotCalm(local)
        /\ \A p \in SeededProvider : ~ Torn(local, p) /\ ~ Torn(me, p)
    BY <1>1, <2>1, <2>2, AssignCalm DEF Torn
  <2> HIDE DEF local
  <2> QED
    BY <1>3, <2>1, <2>3, <2>4
\* Who is released was busy with this request.
<1>10. ASSUME me.pc \in { "releaseLoad", "releaseSave" }
       PROVE  LET p == me.rdoc.assignedProviderId IN
              /\ p \in SeededProvider
              /\ Books(p, requests, providers, "BUSY", { me.req }, 0)
  <2>1. me.rdoc.assignedProviderId # NoProvider
    BY <1>1, <1>10, DispatchAssumption DEF SlotOK, NamesProvider, Held
  <2>2. ~ Torn(me, me.rdoc.assignedProviderId)
    BY <1>10 DEF Torn
  <2> QED
    BY <1>2, <1>10, <2>1, <2>2, WorksOn, BusyWith DEF InBooks
<1>11. CASE ReleaseLoad(h)
  <2> DEFINE local == [me EXCEPT !.pc = "releaseSave"]
  <2>1. me.pc = "releaseLoad" /\ UNCHANGED << requests, providers >>
    BY <1>11 DEF ReleaseLoad
  <2>2. Goes(h, local)
    BY <1>10, <1>11, <2>1 DEF ReleaseLoad, Books
  <2>3. local.pc = "releaseSave" /\ local.rdoc = me.rdoc /\ local.op = me.op
    BY <1>1 DEF HandlerState
  <2> HIDE DEF local
  <2>4. /\ SlotCalm(local)
        /\ \A p \in SeededProvider : ~ Torn(local, p) /\ ~ Torn(me, p)
    BY <1>1, <2>1, <2>3 DEF SlotCalm, HoldsRequest, Torn
  <2> QED
    BY <1>3, <2>1, <2>2, <2>4
<1>12. CASE ReleaseSave(h)
  <2> DEFINE q == me.rdoc.assignedProviderId
             local == Cancelling(me)
  <2>1. /\ me.pc = "releaseSave" /\ UNCHANGED requests /\ me.op = "cancel"
        /\ providers' = [providers EXCEPT ![q].availabilityStatus = "AVAILABLE"]
    BY <1>1, <1>12 DEF ReleaseSave, SlotCalm
  <2>2. Goes(h, local)
    BY <1>12, <2>1 DEF ReleaseSave, AfterRelease
  <2>3. /\ local.pc = "saveRequest" /\ local.req = me.req
        /\ local.rdoc.status = "CANCELLED" /\ local.rdoc.assignedProviderId = q
    BY <1>1 DEF Cancelling, HandlerState, RequestDoc
  <2>4. q \in SeededProvider /\ Books(q, requests, providers, "BUSY", { me.req }, 0)
    BY <1>10, <2>1
  <2>5. /\ providers'[q].availabilityStatus = "AVAILABLE"
        /\ providers'[q].totalCompletedRequests = providers[q].totalCompletedRequests
        /\ \A p \in Provider : p # q => providers'[p] = providers[p]
        /\ \A p \in Provider : providers'[p].kycStatus = providers[p].kycStatus
    BY <1>1, <2>1, <2>4 DEF ProviderDoc
  <2> HIDE DEF local, q
  <2>6. Books(q, requests', providers', "AVAILABLE", { me.req }, 0)
    BY <2>1, <2>4, <2>5, JobsUnchanged DEF Books
  <2>7. ASSUME NEW p \in SeededProvider
        PROVE  InBooks(local, p, requests', providers')
    <3>1. CASE p = q
      BY <2>3, <2>6, <3>1 DEF InBooks, Torn, isTerminalStatus
    <3>2. CASE p # q
      <4>1. Settled(p, requests, providers)
        BY <1>2, <2>1 DEF InBooks, Torn
      <4>2. providers'[p] = providers[p]
        BY <1>1, <2>5, <3>2
      <4>3. /\ Active(p, requests') = Active(p, requests)
            /\ Done(p, requests') = Done(p, requests)
        BY <2>1, JobsUnchanged
      <4>4. Settled(p, requests', providers')
        BY <4>1, <4>2, <4>3, SettledSame
      <4> QED
        BY <2>3, <3>2, <4>4 DEF InBooks
    <3> QED
      BY <3>1, <3>2
  <2>8. SlotCalm(local)
    BY <2>3, <2>4 DEF SlotCalm, CalmDoc, EngagedStatus, Waiting
  <2>9. \A p \in Provider \ SeededProvider : providers'[p].kycStatus # "VERIFIED"
    BY <1>2, <2>5
  <2> QED
    BY <1>2, <2>1, <2>2, <2>7, <2>8, <2>9, CalmStep
<1>13. CASE AssignSaveRequest(h)
  <2> DEFINE half == [me EXCEPT !.pc = "assignSaveProvider"]
             q == me.prov
  <2>1. /\ StoreRequest(h) /\ UNCHANGED providers /\ me.pc \in HoldsRequest
        /\ IF me.pc = "assignSaveBoth" THEN Goes(h, half) ELSE Goes(h, Idle)
        /\ me.pc \in { "assignSaveBoth", "assignSaveRequest" }
    BY <1>13 DEF AssignSaveRequest, HoldsRequest
  <2>2. /\ half.pc = "assignSaveProvider" /\ half.prov = me.prov
        /\ half.req = me.req
    BY <1>1 DEF HandlerState
  <2> HIDE DEF half
  <2>3. /\ me.rdoc.status = "PROVIDER_ASSIGNED" /\ me.rdoc.assignedProviderId = q
        /\ q \in SeededProvider
    BY <1>1, <2>1 DEF Held, SlotCalm, CalmDoc, EngagedStatus
  <2>4. me.rload.assignedProviderId = NoProvider
    <3>1. me.rload.status \in Waiting
      BY <1>1, <2>1, <2>3 DEF Legal, Edge, canTransition, ALLOWED_TRANSITIONS,
         RequestDoc, BreakdownStatus, Waiting
    <3> QED
      BY <1>4, <2>1, <3>1 DEF CalmDoc
  <2>5. /\ Active(q, requests') = Active(q, requests) \cup { me.req }
        /\ Done(q, requests') = Done(q, requests)
    <3>1. /\ Active(q, requests') = Active(q, requests) \cup { me.req }
          /\ Done(q, requests') = Done(q, requests) \ { me.req }
      BY <1>4, <2>1, <2>3, JobsAfter, SMTT(20) DEF EngagedStatus
    <3>2. me.req \notin Done(q, requests)
      BY <1>1, <1>4, <2>1, <2>3, <2>4 DEF Done
    <3> QED
      BY <3>1, <3>2
  <2>6. \A p \in SeededProvider \ { q } :
          Settled(p, requests, providers) => Settled(p, requests', providers')
    BY <1>1, <1>5, <2>1, <2>3, <2>4, SettledSame
  <2>7. /\ \A x \in Request : CalmDoc(requests'[x])
        /\ \A p \in Provider \ SeededProvider : providers'[p].kycStatus # "VERIFIED"
    BY <1>2, <1>4, <2>1
  <2>8. CASE me.pc = "assignSaveBoth"
    <3>1. Books(q, requests, providers, "AVAILABLE", {}, 0)
      <4>1. Settled(q, requests, providers)
        BY <1>2, <2>3, <2>8 DEF InBooks, Torn
      <4>2. providers[q].availabilityStatus = "AVAILABLE"
        BY <1>1, <2>8 DEF Held, mayBeAssigned
      <4> QED
        BY <4>1, <4>2 DEF Settled, Books
    <3>2. Books(q, requests', providers', "AVAILABLE", { me.req }, 0)
      BY <2>1, <2>5, <3>1 DEF Books
    <3>3. ASSUME NEW p \in SeededProvider
          PROVE  InBooks(half, p, requests', providers')
      <4>1. p # q => Settled(p, requests, providers)
        BY <1>2, <2>8 DEF InBooks, Torn
      <4> QED
        BY <2>2, <2>6, <3>2, <4>1 DEF InBooks, Torn
    <3>4. SlotCalm(half)
      BY <2>2 DEF SlotCalm, HoldsRequest
    <3> QED
      BY <2>1, <2>7, <2>8, <3>3, <3>4, CalmStep
  <2>9. CASE me.pc = "assignSaveRequest"
    <3>1. Books(q, requests, providers, "BUSY", {}, 0)
      BY <1>2, <2>3, <2>9 DEF InBooks
    <3>2. Books(q, requests', providers', "BUSY", { me.req }, 0)
      BY <2>1, <2>5, <3>1 DEF Books
    <3>3. ASSUME NEW p \in SeededProvider
          PROVE  InBooks(Idle, p, requests', providers')
      <4>1. p # q => Settled(p, requests, providers)
        BY <1>2, <2>9 DEF InBooks, Torn
      <4>2. Settled(p, requests', providers')
        BY <1>4, <2>1, <2>6, <3>2, <4>1 DEF Settled
      <4> QED
        BY <4>2 DEF InBooks, Idle
    <3> QED
      BY <2>1, <2>7, <2>9, <3>3, IdleCalm, CalmStep
  <2> QED
    BY <2>1, <2>8, <2>9
<1>14. CASE AssignSaveProvider(h)
  <2> DEFINE half == [me EXCEPT !.pc = "assignSaveRequest"]
             q == me.prov
  <2>1. /\ StoreProvider(h) /\ UNCHANGED requests
        /\ IF me.pc = "assignSaveBoth" THEN Goes(h, half) ELSE Goes(h, Idle)
        /\ me.pc \in { "assignSaveBoth", "assignSaveProvider" }
    BY <1>14 DEF AssignSaveProvider
  <2>2. half.pc = "assignSaveRequest" /\ half.prov = me.prov /\ half.rdoc = me.rdoc
    BY <1>1 DEF HandlerState
  <2> HIDE DEF half
  <2>3. /\ q \in SeededProvider
        /\ \A p \in Provider : p # q => providers'[p] = providers[p]
        /\ \A p \in Provider \ SeededProvider : providers'[p].kycStatus # "VERIFIED"
    BY <1>6, <2>1
  <2>4. /\ providers'[q].availabilityStatus = "BUSY"
        /\ providers'[q].totalCompletedRequests = providers[q].totalCompletedRequests
        /\ providers[q].availabilityStatus = "AVAILABLE"
    BY <1>1, <1>6, <2>1 DEF Held, mayBeAssigned, ProviderDoc
  <2>5. \A p \in SeededProvider \ { q } :
          Settled(p, requests, providers) => Settled(p, requests', providers')
    BY <1>1, <2>1, <2>3, JobsUnchanged, SettledSame
  <2>6. \A x \in Request : CalmDoc(requests'[x])
    BY <1>2, <2>1
  <2>7. CASE me.pc = "assignSaveBoth"
    <3>1. Settled(q, requests, providers)
      BY <1>2, <2>3, <2>7 DEF InBooks, Torn
    <3>2. Books(q, requests, providers, "AVAILABLE", {}, 0)
      BY <2>4, <3>1 DEF Settled, Books
    <3>3. Books(q, requests', providers', "BUSY", {}, 0)
      BY <2>1, <2>4, <3>2, JobsUnchanged DEF Books
    <3>4. ASSUME NEW p \in SeededProvider
          PROVE  InBooks(half, p, requests', providers')
      <4>1. p # q => Settled(p, requests, providers)
        BY <1>2, <2>7 DEF InBooks, Torn
      <4> QED
        BY <2>2, <2>5, <3>3, <4>1 DEF InBooks, Torn
    <3>5. SlotCalm(half)
      BY <1>1, <2>2, <2>7 DEF SlotCalm, HoldsRequest
    <3> QED
      BY <2>1, <2>3, <2>6, <2>7, <3>4, <3>5, CalmStep
  <2>8. CASE me.pc = "assignSaveProvider"
    <3>1. Books(q, requests, providers, "AVAILABLE", { me.req }, 0)
      BY <1>2, <2>3, <2>8 DEF InBooks
    <3>2. Books(q, requests', providers', "BUSY", { me.req }, 0)
      BY <2>1, <2>4, <3>1, JobsUnchanged DEF Books
    <3>3. me.req \in Request
      BY <3>1 DEF Books, Active
    <3>4. ASSUME NEW p \in SeededProvider
          PROVE  InBooks(Idle, p, requests', providers')
      <4>1. p # q => Settled(p, requests, providers)
        BY <1>2, <2>8 DEF InBooks, Torn
      <4>2. Settled(p, requests', providers')
        BY <2>5, <3>2, <3>3, <4>1 DEF Settled
      <4> QED
        BY <4>2 DEF InBooks, Idle
    <3> QED
      BY <2>1, <2>3, <2>6, <2>8, <3>4, IdleCalm, CalmStep
  <2> QED
    BY <2>1, <2>7, <2>8
<1>15. CASE CompleteLoad(h)
  <2> DEFINE p == me.rdoc.assignedProviderId
             doc == providers[p]
             edited == JobDone(doc)
             local == [me EXCEPT !.pc = "completeSave", !.prov = p,
                                 !.pload = doc, !.pdoc = edited]
  <2>1. /\ Goes(h, local) /\ me.pc = "completeLoad"
        /\ UNCHANGED << requests, providers >>
    BY <1>15 DEF CompleteLoad
  <2> HIDE DEF p, doc, edited
  <2>2. local.pc = "completeSave" /\ local.rdoc = me.rdoc
    BY <1>1 DEF HandlerState
  <2> HIDE DEF local
  <2>3. /\ SlotCalm(local)
        /\ \A q \in SeededProvider : ~ Torn(local, q) /\ ~ Torn(me, q)
    BY <1>1, <2>1, <2>2 DEF SlotCalm, HoldsRequest, Torn
  <2> QED
    BY <1>3, <2>1, <2>3
<1>16. CASE CompleteSave(h)
  <2> DEFINE local == [me EXCEPT !.pc = "saveRequest", !.prov = NoProvider,
                                 !.pload = OnboardedProvider,
                                 !.pdoc = OnboardedProvider]
             q == me.prov
  <2>1. /\ Goes(h, local) /\ me.pc = "completeSave" /\ StoreProvider(h)
        /\ UNCHANGED requests
    BY <1>16 DEF CompleteSave
  <2>2. local.pc = "saveRequest" /\ local.rdoc = me.rdoc /\ local.req = me.req
    BY <1>1 DEF HandlerState
  <2> HIDE DEF local
  <2>3. /\ q \in SeededProvider /\ q = me.rdoc.assignedProviderId
        /\ me.rdoc.status = "COMPLETED"
        /\ \A p \in Provider : p # q => providers'[p] = providers[p]
        /\ \A p \in Provider \ SeededProvider : providers'[p].kycStatus # "VERIFIED"
    BY <1>1, <1>6, <2>1 DEF Held
  <2>4. Books(q, requests, providers, "BUSY", { me.req }, 0)
    <3>1. Settled(q, requests, providers)
      BY <1>2, <2>1, <2>3 DEF InBooks, Torn
    <3> QED
      BY <1>1, <2>1, <2>3, <3>1, WorksOn, BusyWith
  <2>5. /\ providers'[q].availabilityStatus = "AVAILABLE"
        /\ providers'[q].totalCompletedRequests =
             providers[q].totalCompletedRequests + 1
    <3>1. me.pdoc = JobDone(me.pload) /\ providers'[q] = me.pdoc
          /\ me.pload = providers[q]
      BY <1>1, <1>6, <2>1 DEF Held
    <3>2. /\ JobDone(me.pload).availabilityStatus = "AVAILABLE"
          /\ JobDone(me.pload).totalCompletedRequests =
               me.pload.totalCompletedRequests + 1
      BY <1>1 DEF JobDone, ProviderDoc
    <3> QED
      BY <3>1, <3>2
  <2>6. Books(q, requests', providers', "AVAILABLE", { me.req }, 1)
    <3>1. Cardinality(Done(q, requests)) \in Nat
      BY <2>4, FS_CardinalityType DEF Books
    <3>2. providers'[q].totalCompletedRequests = Cardinality(Done(q, requests)) + 1
      BY <2>4, <2>5, <3>1 DEF Books
    <3> QED
      BY <2>1, <2>4, <2>5, <3>2, JobsUnchanged DEF Books
  <2>7. ASSUME NEW p \in SeededProvider
        PROVE  InBooks(local, p, requests', providers')
    <3>1. CASE p = q
      BY <2>2, <2>3, <2>6, <3>1 DEF InBooks, Torn, isTerminalStatus
    <3>2. CASE p # q
      <4>1. Settled(p, requests, providers)
        BY <1>2, <2>1 DEF InBooks, Torn
      <4>2. Settled(p, requests', providers')
        BY <1>1, <2>1, <2>3, <3>2, <4>1, JobsUnchanged, SettledSame
      <4> QED
        BY <2>2, <2>3, <3>2, <4>2 DEF InBooks
    <3> QED
      BY <3>1, <3>2
  <2>8. SlotCalm(local)
    BY <1>1, <2>1, <2>2 DEF SlotCalm, HoldsRequest
  <2>9. \A x \in Request : CalmDoc(requests'[x])
    BY <1>2, <2>1
  <2> QED
    BY <2>1, <2>3, <2>7, <2>8, <2>9, CalmStep
<1>17. CASE SaveRequest(h)
  <2> DEFINE q == me.rdoc.assignedProviderId
  <2>1. /\ Goes(h, Idle) /\ me.pc = "saveRequest" /\ StoreRequest(h)
        /\ UNCHANGED providers /\ me.pc \in HoldsRequest
    BY <1>17 DEF SaveRequest, HoldsRequest
  <2>2. me.rload.assignedProviderId = q
    BY <1>1, <2>1 DEF Held
  <2>3. ASSUME NEW p \in SeededProvider PROVE Settled(p, requests', providers')
    <3>1. CASE p # q
      <4>1. Settled(p, requests, providers)
        BY <1>2, <2>1, <3>1 DEF InBooks, Torn
      <4> QED
        BY <1>1, <1>5, <2>1, <2>2, <3>1, <4>1, SettledSame
    <3>2. CASE p = q
      <4>1. me.req \in Active(q, requests) /\ me.req \in Request
        BY <1>1, <2>1, <3>2, WorksOn
      <4>2. me.req \notin Done(q, requests)
        BY <4>1 DEF Active, Done, EngagedStatus
      <4>3. CASE me.rdoc.status = "CANCELLED"
        <5>1. Books(q, requests, providers, "AVAILABLE", { me.req }, 0)
          BY <1>2, <2>1, <3>2, <4>3 DEF InBooks
        <5>2. /\ Active(q, requests') = Active(q, requests) \ { me.req }
              /\ Done(q, requests') = Done(q, requests) \ { me.req }
          BY <1>4, <2>1, <4>3, JobsAfter, SMTT(20) DEF EngagedStatus
        <5>3. Active(q, requests') = {} /\ Done(q, requests') = Done(q, requests)
          BY <4>2, <5>1, <5>2 DEF Books
        <5> QED
          BY <2>1, <3>2, <5>1, <5>3 DEF Settled, Books
      <4>4. CASE me.rdoc.status = "COMPLETED"
        <5>1. Books(q, requests, providers, "AVAILABLE", { me.req }, 1)
          BY <1>2, <2>1, <3>2, <4>4 DEF InBooks
        <5>2. /\ Active(q, requests') = Active(q, requests) \ { me.req }
              /\ Done(q, requests') = Done(q, requests) \cup { me.req }
          BY <1>4, <2>1, <4>4, JobsAfter, SMTT(20) DEF EngagedStatus
        <5>3. /\ IsFiniteSet(Done(q, requests'))
              /\ Cardinality(Done(q, requests')) = Cardinality(Done(q, requests)) + 1
          <6>1. IsFiniteSet(Done(q, requests))
            BY <5>1 DEF Books
          <6>2. /\ IsFiniteSet(Done(q, requests) \cup { me.req })
                /\ Cardinality(Done(q, requests) \cup { me.req }) =
                     IF me.req \in Done(q, requests)
                       THEN Cardinality(Done(q, requests))
                       ELSE Cardinality(Done(q, requests)) + 1
            BY <6>1, FS_AddElement
          <6> QED
            BY <4>2, <5>2, <6>2
        <5>4. Active(q, requests') = {}
          BY <5>1, <5>2 DEF Books
        <5>5. /\ Cardinality(Done(q, requests')) \in Nat
              /\ providers'[q].totalCompletedRequests = Cardinality(Done(q, requests'))
              /\ providers'[q].availabilityStatus = "AVAILABLE"
          BY <2>1, <5>1, <5>3, FS_CardinalityType DEF Books
        <5> QED
          BY <3>2, <5>3, <5>4, <5>5 DEF Settled, Books
      <4>5. CASE ~ isTerminalStatus(me.rdoc.status)
        <5>1. Settled(q, requests, providers)
          BY <1>2, <2>1, <3>2, <4>5 DEF InBooks, Torn
        <5>2. me.rdoc.status \in EngagedStatus
          BY <1>1, <1>4, <2>1, <3>2, <4>5 DEF CalmDoc, Waiting, EngagedStatus,
             isTerminalStatus, RequestDoc, BreakdownStatus
        <5>3. /\ Active(q, requests') = Active(q, requests) \cup { me.req }
              /\ Done(q, requests') = Done(q, requests) \ { me.req }
          <6>1. me.rdoc.status # "COMPLETED"
            BY <4>5 DEF isTerminalStatus
          <6> QED
            BY <1>4, <2>1, <5>2, <6>1, JobsAfter
        <5>4. /\ Active(q, requests') = Active(q, requests)
              /\ Done(q, requests') = Done(q, requests)
          BY <4>1, <4>2, <5>3
        <5> QED
          BY <2>1, <3>2, <5>1, <5>4, SettledSame
      <4> QED
        BY <4>3, <4>4, <4>5 DEF isTerminalStatus
    <3> QED
      BY <3>1, <3>2
  <2>4. \A p \in SeededProvider : InBooks(Idle, p, requests', providers')
    BY <2>3 DEF InBooks, Idle
  <2>5. \A p \in Provider \ SeededProvider : providers'[p].kycStatus # "VERIFIED"
    BY <1>2, <2>1
  <2> QED
    BY <1>4, <2>1, <2>4, <2>5, IdleCalm, CalmStep
<1>18. ~ SaveProvider(h)
  BY <1>1 DEF SaveProvider, SlotCalm
<1> QED
  BY <1>7, <1>8, <1>9, <1>11, <1>12, <1>13, <1>14, <1>15, <1>16, <1>17, <1>18
  DEF Continue

LEMMA InitCalm ==
  ASSUME OneHandler
  PROVE  Init => CalmInv
<1> SUFFICES ASSUME Init PROVE CalmInv
  OBVIOUS
<1>1. AloneInv
  BY AloneInvInductive 
<1>2. \A r \in Request : CalmDoc(requests[r])
  BY DEF Init, CalmDoc, AbsentRequest, EngagedStatus
<1>3. /\ \A h \in Handler : handler[h] = Idle
      /\ \A p \in Provider \ SeededProvider : providers[p].kycStatus # "VERIFIED"
  BY DEF Init, OnboardedProvider
<1>4. ASSUME NEW p \in SeededProvider PROVE Settled(p, requests, providers)
  <2>1. Active(p, requests) = {} /\ Done(p, requests) = {}
    BY DEF Init, Active, Done, AbsentRequest, EngagedStatus
  <2>2. /\ providers[p].availabilityStatus = "AVAILABLE"
        /\ providers[p].totalCompletedRequests = 0
    BY DispatchAssumption DEF Init, ReadyProvider
  <2>3. Books(p, requests, providers, "AVAILABLE", {}, 0)
    BY <2>1, <2>2, FS_EmptySet DEF Books
  <2> QED
    BY <2>3 DEF Settled
<1>5. \A p \in SeededProvider : InBooks(Idle, p, requests, providers)
  BY <1>4 DEF InBooks, Idle
<1> QED
  BY <1>1, <1>2, <1>3, <1>4, <1>5, IdleCalm DEF CalmInv

LEMMA NextCalm ==
  ASSUME OneHandler, CalmInv,
         \/ CalmNext
         \/ ~ Faults /\ Ops \subseteq CalmOps /\ Next
  PROVE  CalmInv'
<1>1. Next
  BY Zenon DEF CalmNext, Next
<1>2. AloneInv'
  BY <1>1, AloneInvInductive DEF CalmInv
<1>3. PICK h \in Handler :
        \/ Accept(h) /\ (Ops \subseteq CalmOps \/ CalmCall(handler'[h]))
        \/ Continue(h)
  <2>1. CASE CalmNext
    BY <2>1, Zenon DEF CalmNext
  <2>2. CASE ~ Faults /\ Ops \subseteq CalmOps /\ Next
    <3>1. \A h \in Handler : ~ Abort(h) /\ ~ OneSaveFails(h)
      BY <2>2 DEF Abort, OneSaveFails
    <3> QED
      BY <2>2, <3>1, Zenon DEF Next
  <2> QED
    BY <2>1, <2>2
<1>4. Accept(h) => handler[h].pc = "idle"
  BY DEF Accept, CreateInsert, CancelLoad, UpdateStatusLoad, AssignLoad,
     Accepts, AvailabilityLoad, KycLoad
<1> QED
  BY <1>2, <1>3, <1>4, AcceptCalm, ContinueCalm

LEMMA CalmConsistent == CalmInv => DispatchConsistent
<1> SUFFICES ASSUME CalmInv, Quiescent, NEW p \in SeededProvider
             PROVE  /\ providers[p].availabilityStatus =
                         IF ActiveJobs(p) = {} THEN "AVAILABLE" ELSE "BUSY"
                    /\ Cardinality(ActiveJobs(p)) <= 1
                    /\ providers[p].totalCompletedRequests =
                         Cardinality(CompletedJobs(p))
  BY DEF DispatchConsistent
<1>1. Settled(p, requests, providers)
  BY DEF CalmInv, InBooks, Quiescent, Torn
<1>2. ActiveJobs(p) = Active(p, requests) /\ CompletedJobs(p) = Done(p, requests)
  BY DEF ActiveJobs, CompletedJobs, Active, Done
<1>3. Cardinality(Done(p, requests)) \in Nat
  BY <1>1, FS_CardinalityType DEF Settled, Books
<1>4. Cardinality({}) = 0 /\ \A r : Cardinality({ r }) = 1
  BY FS_EmptySet, FS_Singleton
<1>5. CASE Books(p, requests, providers, "AVAILABLE", {}, 0)
  BY <1>2, <1>3, <1>4, <1>5 DEF Books
<1>6. ASSUME NEW r \in Request, Books(p, requests, providers, "BUSY", { r }, 0)
      PROVE  /\ providers[p].availabilityStatus =
                  IF ActiveJobs(p) = {} THEN "AVAILABLE" ELSE "BUSY"
             /\ Cardinality(ActiveJobs(p)) <= 1
             /\ providers[p].totalCompletedRequests = Cardinality(CompletedJobs(p))
  <2>1. /\ providers[p].availabilityStatus = "BUSY"
        /\ ActiveJobs(p) = { r }
        /\ providers[p].totalCompletedRequests = Cardinality(CompletedJobs(p)) + 0
    BY <1>2, <1>6 DEF Books
  <2>2. ActiveJobs(p) # {} /\ Cardinality(ActiveJobs(p)) = 1
    BY <1>4, <2>1
  <2>3. Cardinality(CompletedJobs(p)) + 0 = Cardinality(CompletedJobs(p))
    BY <1>2, <1>3
  <2> QED
    BY <2>1, <2>2, <2>3
<1> QED
  BY <1>1, <1>5, <1>6 DEF Settled

\* Handlers that run one at a time, with nothing failing and no profile
\* edited, leave every provider's document in agreement with the requests.
THEOREM CalmAlwaysConsistent ==
  ASSUME Calm
  PROVE  Spec => []DispatchConsistent
<1>1. Init => CalmInv
  BY InitCalm DEF Calm
<1>2. CalmInv /\ [Next]_vars => CalmInv'
  <2>1. ASSUME CalmInv, UNCHANGED vars PROVE CalmInv'
    <3>1. AloneInv'
      BY <2>1, AloneInvInductive DEF CalmInv, Calm
    <3> QED
      BY <2>1, <3>1 DEF CalmInv, vars
  <2> QED
    BY <2>1, NextCalm DEF Calm, CalmOps
<1> QED
  BY <1>1, <1>2, CalmConsistent, PTL DEF Spec

-----------------------------------------------------------------------------
(***************************************************************************)
(* The worlds of MCDispatchSerial.  The world never changes, and a step of *)
(* the worlds `alone' and `calm' is a step of Dispatch.                    *)
(***************************************************************************)

\* One handler at a time, cut off anywhere: who is online is verified, and no
\* finished job is missing from its provider's count.
THEOREM ProviderAlwaysAgrees ==
  ASSUME OneHandler
  PROVE  SerialSpec => []ProviderAgrees
<1> DEFINE I == /\ world = "alone" => OnlineInv
                /\ world # "several" => CountInv
<1>1. SerialInit => I
  BY InitOnline, InitCount DEF SerialInit
<1>2. I /\ [SerialNext]_<< vars, world >> => I'
  <2> SUFFICES ASSUME I, [SerialNext]_<< vars, world >> PROVE I'
    OBVIOUS
  <2>1. UNCHANGED world
    BY DEF SerialNext
  <2>2. world # "several" => [Next]_vars
    BY Zenon DEF SerialNext, CalmNext, Next
  <2>3. world = "alone" => OnlineInv'
    BY <2>2, StepOnline
  <2>4. world # "several" => CountInv'
    BY <2>2, StepCount
  <2> QED
    BY <2>1, <2>3, <2>4
<1>3. I => ProviderAgrees
  BY OnlineVerified, CountCounted
  DEF ProviderAgrees, OnlineIsVerified, FinishedIsCounted
<1> QED
  BY <1>1, <1>2, <1>3, PTL DEF SerialSpec

\* One handler at a time, no faults and calm calls: between calls, the
\* provider documents agree with the request documents.
THEOREM CalmIsAlwaysConsistent ==
  ASSUME OneHandler
  PROVE  SerialSpec => []CalmIsConsistent
<1> DEFINE I == world = "calm" => CalmInv
<1>1. SerialInit => I
  BY InitCalm DEF SerialInit
<1>2. I /\ [SerialNext]_<< vars, world >> => I'
  <2> SUFFICES ASSUME I, [SerialNext]_<< vars, world >>, world' = "calm"
               PROVE  CalmInv'
    OBVIOUS
  <2>1. world = "calm" /\ CalmInv
    BY DEF SerialNext
  <2>2. CASE CalmNext
    BY <2>1, <2>2, NextCalm
  <2>3. CASE UNCHANGED vars
    <3>1. AloneInv'
      BY <2>1, <2>3, AloneInvInductive DEF CalmInv
    <3> QED
      BY <2>1, <2>3, <3>1 DEF CalmInv, vars
  <2> QED
    BY <2>1, <2>2, <2>3, Zenon DEF SerialNext
<1>3. I => CalmIsConsistent
  BY CalmConsistent DEF CalmIsConsistent
<1> QED
  BY <1>1, <1>2, <1>3, PTL DEF SerialSpec

=============================================================================
