------------------------ MODULE NotificationsProofs ------------------------
(***************************************************************************)
(* Theorems about Notifications for every choice of its constants: any     *)
(* number of calls, admins and readers, any overlap and any fault.         *)
(***************************************************************************)
EXTENDS MCNotifications, SequenceTheorems, FiniteSetTheorems, TLAPS

-----------------------------------------------------------------------------
(***************************************************************************)
(* The stages of a call.                                                   *)
(***************************************************************************)
Stage == [to : SUBSET User, settles : BOOLEAN]

\* A stage whose failures count is for the customer or the provider.
SoundStage(s) == s \in Stage /\ (~ s.settles => s.to \cap Admin = {})

SoundStages(s) ==
  s \in Seq(Stage) /\ \A n \in 1 .. Len(s) : SoundStage(s[n])

\* u is told in some stage, and one whose failures count unless u is an admin.
Tells(s, u) ==
  \E n \in 1 .. Len(s) : u \in s[n].to /\ (s[n].settles => u \in Admin)

LEMMA ToSound ==
  ASSUME NEW u \in { Customer, Provider }
  PROVE  SoundStages(To(u)) /\ Len(To(u)) = 1 /\ Tells(To(u), u)
<1> DEFINE stage == [to |-> { u }, settles |-> FALSE]
<1>1. stage \in Stage /\ SoundStage(stage) /\ u \in stage.to /\ ~ stage.settles
  BY NotificationAssumption DEF SoundStage, Stage, User
<1> HIDE DEF stage
<1>2. To(u) = << stage >>
  BY DEF To, stage
<1> QED
  BY <1>1, <1>2 DEF SoundStages, Tells

LEMMA AdminsSound ==
  /\ SoundStages(AllAdmins) /\ Len(AllAdmins) = 1
  /\ \A u \in Admin : Tells(AllAdmins, u)
<1> DEFINE stage == [to |-> Admin, settles |-> TRUE]
<1>1. stage \in Stage /\ SoundStage(stage) /\ Admin = stage.to
  BY DEF SoundStage, Stage, User
<1> HIDE DEF stage
<1>2. AllAdmins = << stage >>
  BY DEF AllAdmins, stage
<1> QED
  BY <1>1, <1>2 DEF SoundStages, Tells

\* One sequence of stages after the other.
LEMMA ThenSound ==
  ASSUME NEW s, NEW t, SoundStages(s), SoundStages(t)
  PROVE  /\ SoundStages(s \o t)
         /\ Len(s \o t) = Len(s) + Len(t)
         /\ \A u \in User : Tells(s, u) \/ Tells(t, u) => Tells(s \o t, u)
<1>1. s \in Seq(Stage) /\ t \in Seq(Stage) /\ Len(s) \in Nat /\ Len(t) \in Nat
  BY LenProperties DEF SoundStages
<1>2. /\ s \o t \in Seq(Stage)
      /\ Len(s \o t) = Len(s) + Len(t)
      /\ \A n \in 1 .. Len(s) + Len(t) :
           (s \o t)[n] = IF n <= Len(s) THEN s[n] ELSE t[n - Len(s)]
  BY <1>1, ConcatProperties
<1>3. SoundStages(s \o t)
  <2> SUFFICES ASSUME NEW n \in 1 .. Len(s) + Len(t) PROVE SoundStage((s \o t)[n])
    BY <1>2 DEF SoundStages
  <2>1. CASE n <= Len(s)
    BY <1>1, <1>2, <2>1 DEF SoundStages
  <2>2. CASE ~ n <= Len(s)
    <3>1. n - Len(s) \in 1 .. Len(t)
      BY <1>1, <2>2
    <3> QED
      BY <1>2, <2>2, <3>1 DEF SoundStages
  <2> QED
    BY <2>1, <2>2
<1>4. ASSUME NEW u \in User, Tells(s, u) PROVE Tells(s \o t, u)
  <2>1. PICK n \in 1 .. Len(s) : u \in s[n].to /\ (s[n].settles => u \in Admin)
    BY <1>4 DEF Tells
  <2>2. n \in 1 .. Len(s) + Len(t) /\ (s \o t)[n] = s[n]
    BY <1>1, <1>2
  <2> QED
    BY <1>2, <2>1, <2>2 DEF Tells
<1>5. ASSUME NEW u \in User, Tells(t, u) PROVE Tells(s \o t, u)
  <2>1. PICK n \in 1 .. Len(t) : u \in t[n].to /\ (t[n].settles => u \in Admin)
    BY <1>5 DEF Tells
  <2>2. Len(s) + n \in 1 .. Len(s) + Len(t) /\ (s \o t)[Len(s) + n] = t[n]
    BY <1>1, <1>2
  <2> QED
    BY <1>2, <2>1, <2>2 DEF Tells
<1> QED
  BY <1>2, <1>3, <1>4, <1>5

LEMMA NoStageSound == SoundStages(<< >>) /\ Len(<< >>) = 0
BY DEF SoundStages

LEMMA AssignedSound ==
  /\ SoundStages(AssignedStages) /\ Len(AssignedStages) = 2
  /\ Tells(AssignedStages, Customer) /\ Tells(AssignedStages, Provider)
<1> DEFINE s == To(Customer)
           t == To(Provider)
<1>1. /\ SoundStages(s) /\ Len(s) = 1 /\ Tells(s, Customer)
      /\ SoundStages(t) /\ Len(t) = 1 /\ Tells(t, Provider)
  BY ToSound
<1> HIDE DEF s, t
<1>2. /\ SoundStages(s \o t) /\ Len(s \o t) = Len(s) + Len(t)
      /\ \A u \in User : Tells(s, u) \/ Tells(t, u) => Tells(s \o t, u)
  BY <1>1, ThenSound
<1>3. AssignedStages = s \o t
  BY DEF AssignedStages, s, t
<1> QED
  BY <1>1, <1>2, <1>3 DEF User

\* Every stage is sound, there are at most MaxStages, and everybody whom the
\* event concerns is told in one of them.
LEMMA StagesSound ==
  ASSUME NEW k \in Kind
  PROVE  /\ SoundStages(Stages(k))
         /\ Len(Stages(k)) \in 0 .. MaxStages
         /\ \A u \in Concerned(k) : Tells(Stages(k), u)
<1>1. /\ k.event \in { "created", "assigned", "arrived", "completed",
                       "cancelled", "status" }
      /\ k.assigned \in BOOLEAN /\ k.emergency \in BOOLEAN
  BY NotificationAssumption DEF Kind
<1>2. /\ SoundStages(To(Customer)) /\ Len(To(Customer)) = 1
      /\ SoundStages(To(Provider)) /\ Len(To(Provider)) = 1
      /\ Tells(To(Customer), Customer) /\ Tells(To(Provider), Provider)
  BY ToSound
<1>3. /\ Customer \in User /\ Provider \in User /\ Admin \subseteq User
      /\ \A u \in Concerned(k) : u \in User
  BY DEF User, Concerned
<1>4. CASE k.event = "created"
  <2> DEFINE cust == To(Customer)
             alert == Optional(k.emergency, AllAdmins)
             named == Optional(k.assigned, AssignedStages)
             first == cust \o alert
             whole == first \o named
  <2>1. /\ SoundStages(alert) /\ Len(alert) \in 0 .. 1
        /\ k.emergency => \A u \in Admin : Tells(alert, u)
    BY AdminsSound, NoStageSound DEF Optional
  <2>2. /\ SoundStages(named) /\ Len(named) \in 0 .. 2
        /\ k.assigned => Tells(named, Provider)
    BY AssignedSound, NoStageSound DEF Optional
  <2>3. SoundStages(cust) /\ Len(cust) = 1 /\ Tells(cust, Customer)
    BY <1>2
  <2>4. Stages(k) = whole
    BY <1>4 DEF Stages
  <2> HIDE DEF cust, alert, named
  <2>5. /\ SoundStages(first) /\ Len(first) = Len(cust) + Len(alert)
        /\ \A u \in User : Tells(cust, u) \/ Tells(alert, u) => Tells(first, u)
    BY <2>1, <2>3, ThenSound
  <2> HIDE DEF first
  <2>6. /\ SoundStages(whole) /\ Len(whole) = Len(first) + Len(named)
        /\ \A u \in User : Tells(first, u) \/ Tells(named, u) => Tells(whole, u)
    BY <2>2, <2>5, ThenSound
  <2> HIDE DEF whole
  <2>7. Len(whole) \in 0 .. 4
    <3>1. PICK a \in 0 .. 1, n \in 0 .. 2 : Len(alert) = a /\ Len(named) = n
      BY <2>1, <2>2
    <3>2. Len(first) = 1 + a
      BY <2>3, <2>5, <3>1
    <3>3. Len(whole) = 1 + a + n
      BY <2>6, <3>1, <3>2
    <3> QED
      BY <3>3
  <2>8. /\ Tells(whole, Customer)
        /\ k.emergency => \A u \in Admin : Tells(whole, u)
        /\ k.assigned => Tells(whole, Provider)
    BY <1>3, <2>1, <2>2, <2>3, <2>5, <2>6
  <2> QED
    BY <1>4, <2>4, <2>6, <2>7, <2>8 DEF Concerned, MaxStages
<1>5. CASE k.event = "assigned"
  <2>1. Stages(k) = AssignedStages
    BY <1>5 DEF Stages
  <2> QED
    BY <1>5, <2>1, AssignedSound DEF Concerned, MaxStages
<1>6. CASE k.event = "arrived"
  <2>1. Stages(k) = To(Customer)
    BY <1>6 DEF Stages
  <2> QED
    BY <1>2, <1>6, <2>1 DEF Concerned, MaxStages
<1>7. CASE k.event \in { "completed", "cancelled" }
  <2> DEFINE cust == To(Customer)
             named == Optional(k.assigned, To(Provider))
  <2>1. /\ SoundStages(named) /\ Len(named) \in 0 .. 1
        /\ k.assigned => Tells(named, Provider)
    BY <1>2, NoStageSound DEF Optional
  <2>2. SoundStages(cust) /\ Len(cust) = 1 /\ Tells(cust, Customer)
    BY <1>2
  <2>3. Stages(k) = cust \o named
    BY <1>7 DEF Stages
  <2> HIDE DEF cust, named
  <2>4. /\ SoundStages(cust \o named) /\ Len(cust \o named) = Len(cust) + Len(named)
        /\ \A u \in User : Tells(cust, u) \/ Tells(named, u) => Tells(cust \o named, u)
    BY <2>1, <2>2, ThenSound
  <2>5. Len(Stages(k)) \in 0 .. 2
    BY <2>1, <2>2, <2>3, <2>4
  <2>6. Tells(Stages(k), Customer) /\ (k.assigned => Tells(Stages(k), Provider))
    BY <1>3, <2>1, <2>2, <2>3, <2>4
  <2> QED
    BY <1>7, <2>3, <2>4, <2>5, <2>6 DEF Concerned, MaxStages
<1>8. CASE k.event = "status"
  <2>1. Stages(k) = Optional(k.emergency, AllAdmins)
    BY <1>8 DEF Stages
  <2> QED
    BY <1>8, <2>1, AdminsSound, NoStageSound DEF Concerned, MaxStages, Optional
<1> QED
  BY <1>1, <1>4, <1>5, <1>6, <1>7, <1>8

-----------------------------------------------------------------------------
(***************************************************************************)
(* Counts are numbers: there are finitely many notifications.              *)
(***************************************************************************)
LEMMA IdFinite == IsFiniteSet(Id)
<1> DEFINE S == (Call \X (1 .. MaxStages)) \X User
           f == [x \in S |-> [call |-> x[1][1], stage |-> x[1][2], user |-> x[2]]]
<1>1. IsFiniteSet(User)
  <2>1. IsFiniteSet({ Customer } \cup { Provider })
    BY FS_Singleton, FS_Union
  <2>2. IsFiniteSet(({ Customer } \cup { Provider }) \cup Admin)
    BY <2>1, NotificationAssumption, FS_Union
  <2>3. User = ({ Customer } \cup { Provider }) \cup Admin
    BY DEF User
  <2> QED
    BY <2>2, <2>3
<1>2. IsFiniteSet(1 .. MaxStages)
  <2>1. 1 \in Int /\ MaxStages \in Int
    BY DEF MaxStages
  <2> QED
    BY <2>1, FS_Interval
<1>3. IsFiniteSet(S)
  BY <1>1, <1>2, NotificationAssumption, FS_Product
<1>4. f \in Surjection(S, Id)
  <2>1. f \in [S -> Id]
    BY DEF Id
  <2>2. ASSUME NEW i \in Id PROVE \E x \in S : f[x] = i
    <3>1. << << i.call, i.stage >>, i.user >> \in S
      BY DEF Id
    <3>2. f[<< << i.call, i.stage >>, i.user >>] = i
      BY <3>1 DEF Id
    <3> QED
      BY <3>1, <3>2
  <2> QED
    BY <2>1, <2>2 DEF Surjection
<1> QED
  BY <1>3, <1>4, FS_Surjection

LEMMA UnreadType ==
  ASSUME NEW u
  PROVE  Unread(u) \in Nat
BY IdFinite, FS_Subset, FS_CardinalityType DEF Unread

-----------------------------------------------------------------------------
(***************************************************************************)
(* Type correctness.  A call stays within its stages because it moves on   *)
(* only from one that is not the last, and asks for the admins only where  *)
(* they are told.                                                          *)
(***************************************************************************)
StageCount(c) == Len(Stages(Calls(c)))

Orderly(c) ==
  /\ call[c].pc = "unused" <=> call[c].at = 0
  /\ call[c].at <= StageCount(c)
  /\ call[c].pc = "done" => call[c].at = StageCount(c)
  /\ call[c].pc = "asking" => Stages(Calls(c))[call[c].at].settles

CallInv == TypeOK /\ \A c \in Call : Orderly(c)

SendState == [ pc : { "none", "sent", "failed" } \cup InFlight, count : Nat ]
NoteState == [ status : { "none", "PENDING", "DELIVERED", "READ" }, readAt : BOOLEAN ]
ReaderState == [ pc : { "idle", "count", "emit" }, user : User, count : Nat ]
CallState == [ pc : { "unused", "done", "stopped", "lost" } \cup UnderWay,
               kind : Kind, at : 0 .. MaxStages ]

\* What TypeOK says of one element of each collection.
LEMMA TypeFacts ==
  ASSUME TypeOK
  PROVE  /\ call \in [Call -> CallState] /\ note \in [Id -> NoteState]
         /\ send \in [Id -> SendState] /\ reader \in [Reader -> ReaderState]
         /\ lastCount \in [User -> Nat]
         /\ \A c \in Call : call[c] \in CallState /\ Calls(c) \in Kind
         /\ \A i \in Id : note[i] \in NoteState /\ send[i] \in SendState
         /\ \A r \in Reader : reader[r] \in ReaderState
         /\ \A i \in Id : i.call \in Call /\ i.stage \in 1 .. MaxStages /\ i.user \in User
BY DEF TypeOK, CallState, NoteState, SendState, ReaderState, Calls, Id

LEMMA CallStages ==
  ASSUME TypeOK, NEW c \in Call
  PROVE  /\ SoundStages(Stages(Calls(c)))
         /\ StageCount(c) \in 0 .. 4
         /\ \A u \in Concerned(Calls(c)) : Tells(Stages(Calls(c)), u)
BY TypeFacts, StagesSound DEF StageCount, MaxStages

LEMMA InitCallInv == Init => CallInv
<1> SUFFICES ASSUME Init PROVE CallInv
  OBVIOUS
<1>1. TypeOK
  BY DEF Init, TypeOK, Absent, Unsent, AtRest, User, MaxStages
<1>2. ASSUME NEW c \in Call PROVE Orderly(c)
  <2>1. call[c].pc = "unused" /\ call[c].at = 0
    BY DEF Init
  <2> QED
    BY <1>1, <2>1, CallStages DEF Orderly
<1> QED
  BY <1>1, <1>2 DEF CallInv

\* A call's steps.
LEMMA CallStepInv ==
  ASSUME CallInv, NEW c \in Call, CallStep(c)
  PROVE  /\ CallInv'
         /\ \A d \in Call : Calls(d)' = Calls(d) /\ StageCount(d)' = StageCount(d)
<1> DEFINE k == call[c].at
<1>1. /\ call \in [Call -> CallState] /\ send \in [Id -> SendState]
      /\ call[c] \in CallState /\ k \in 0 .. 4
      /\ StageCount(c) \in 0 .. 4 /\ Orderly(c)
  <2>1. TypeOK /\ Orderly(c)
    BY DEF CallInv
  <2>2. StageCount(c) \in 0 .. 4
    BY <2>1, CallStages
  <2>3. /\ call \in [Call -> CallState] /\ send \in [Id -> SendState]
        /\ call[c] \in CallState
    BY <2>1, TypeFacts
  <2>4. k \in 0 .. 4
    BY <2>3 DEF CallState, MaxStages
  <2> QED
    BY <2>1, <2>2, <2>3, <2>4
<1>2. ASSUME NEW n, Begins(c, n) PROVE send' \in [Id -> SendState]
  BY <1>1, <1>2 DEF Begins, SendState, InFlight
<1>3. /\ UNCHANGED << note, reader, lastCount >>
      /\ send' \in [Id -> SendState]
  BY <1>1, <1>2 DEF CallStep, Fire, AdminsFound, AdminsQueryFails, NextStage, Enters
<1>4. \A d \in Call : call'[d].kind = call[d].kind
  <2>1. CASE Fire(c)
    BY <1>1, <2>1 DEF Fire, Enters, CallState
  <2>2. CASE AdminsFound(c) \/ AdminsQueryFails(c)
    BY <1>1, <2>2 DEF AdminsFound, AdminsQueryFails, CallState
  <2>3. CASE NextStage(c)
    BY <1>1, <2>3 DEF NextStage, Enters, CallState
  <2> QED
    BY <2>1, <2>2, <2>3 DEF CallStep
<1>5. \A d \in Call : Calls(d)' = Calls(d) /\ StageCount(d)' = StageCount(d)
  BY <1>4 DEF Calls, StageCount
<1>6. \A d \in Call : d # c => call'[d] = call[d]
  BY <1>1 DEF CallStep, Fire, AdminsFound, AdminsQueryFails, NextStage, Enters
<1>7. ASSUME NEW pc \in { "running", "asking", "done", "stopped" }, NEW at \in Nat \ {0},
             at <= StageCount(c),
             pc = "done" => at = StageCount(c),
             pc = "asking" => Stages(Calls(c))[at].settles,
             call' = [call EXCEPT ![c] = [call[c] EXCEPT !.pc = pc, !.at = at]]
      PROVE  CallInv'
  <2>1. /\ call'[c] = [call[c] EXCEPT !.pc = pc, !.at = at]
        /\ call'[c].pc = pc /\ call'[c].at = at
        /\ call' \in [Call -> CallState]
    <3>1. at \in 0 .. 4
      BY <1>1, <1>7
    <3> QED
      BY <1>1, <1>7, <3>1 DEF CallState, UnderWay, MaxStages
  <2>2. TypeOK'
    BY <1>1, <1>3, <1>7, <2>1 DEF CallInv, TypeOK, CallState, SendState
  <2>3. ASSUME NEW d \in Call PROVE Orderly(d)'
    <3>1. CASE d = c
      BY <1>5, <1>7, <2>1, <3>1 DEF Orderly
    <3>2. CASE d # c
      BY <1>5, <1>6, <3>2 DEF Orderly, CallInv
    <3> QED
      BY <3>1, <3>2
  <2> QED
    BY <2>2, <2>3 DEF CallInv
<1>8. ASSUME NEW at \in Nat \ {0}, at <= StageCount(c), Enters(c, at) PROVE CallInv'
  <2>1. CASE /\ Stages(Calls(c))[at].settles
             /\ call' = [call EXCEPT ![c].pc = "asking", ![c].at = at]
    <3>1. call' = [call EXCEPT ![c] = [call[c] EXCEPT !.pc = "asking", !.at = at]]
      BY <1>1, <2>1 DEF CallState
    <3> QED
      BY <1>7, <1>8, <2>1, <3>1
  <2>2. CASE call' = [call EXCEPT ![c].pc = "running", ![c].at = at]
    <3>1. call' = [call EXCEPT ![c] = [call[c] EXCEPT !.pc = "running", !.at = at]]
      BY <1>1, <2>2 DEF CallState
    <3> QED
      BY <1>7, <1>8, <3>1
  <2> QED
    BY <1>8, <2>1, <2>2 DEF Enters
<1>9. CASE Fire(c)
  <2>1. StageCount(c) # 0
    BY <1>1, <1>9, CallStages, EmptySeq DEF Fire, SoundStages, CallInv, StageCount
  <2>2. 1 \in Nat \ {0} /\ 1 <= StageCount(c)
    BY <1>1, <2>1
  <2> QED
    BY <1>5, <1>8, <1>9, <2>2 DEF Fire
<1>10. ASSUME NEW pc \in { "running", "done", "stopped" },
              call[c].pc # "unused", pc = "done" => k = StageCount(c),
              call' = [call EXCEPT ![c].pc = pc]
       PROVE  CallInv'
  <2>1. call' = [call EXCEPT ![c] = [call[c] EXCEPT !.pc = pc, !.at = k]]
    BY <1>1, <1>10 DEF CallState
  <2>2. k \in Nat \ {0} /\ k <= StageCount(c)
    BY <1>1, <1>10 DEF Orderly
  <2> QED
    BY <1>7, <1>10, <2>1, <2>2
<1>11. CASE AdminsFound(c)
  BY <1>5, <1>10, <1>11 DEF AdminsFound
<1>12. CASE AdminsQueryFails(c)
  BY <1>5, <1>10, <1>12 DEF AdminsQueryFails
<1>13. CASE NextStage(c)
  <2>1. call[c].pc = "running" /\ k # 0 /\ k <= StageCount(c)
    BY <1>1, <1>13 DEF NextStage, Orderly
  <2>2. CASE call' = [call EXCEPT ![c].pc = "stopped"]
    BY <1>5, <1>10, <2>1, <2>2
  <2>3. CASE call' = [call EXCEPT ![c].pc = "done"] /\ k = StageCount(c)
    <3>1. call[c].pc # "unused"
      BY <2>1
    <3> QED
      BY <1>5, <1>10, <2>3, <3>1
  <2>4. CASE Enters(c, k + 1) /\ k < StageCount(c)
    <3>1. PICK at \in Nat \ {0} : at = k + 1 /\ at <= StageCount(c)
      BY <1>1, <2>1, <2>4
    <3>2. Enters(c, at)
      BY <2>4, <3>1 DEF Enters
    <3> QED
      BY <1>5, <1>8, <3>1, <3>2
  <2> QED
    BY <1>13, <2>2, <2>3, <2>4 DEF NextStage, StageCount
<1> QED
  BY <1>5, <1>9, <1>11, <1>12, <1>13 DEF CallStep

\* A crash.
LEMMA CrashInv ==
  ASSUME CallInv, Crash
  PROVE  CallInv'
<1>1. TypeOK /\ \A c \in Call : Orderly(c)
  BY DEF CallInv
<1>2. /\ call \in [Call -> CallState] /\ note \in [Id -> NoteState]
      /\ send \in [Id -> SendState] /\ lastCount \in [User -> Nat]
  BY <1>1, TypeFacts
<1>3. call' \in [Call -> CallState]
  BY <1>2 DEF Crash, CallState
<1>4. send' \in [Id -> SendState]
  BY <1>2 DEF Crash, SendState, InFlight
<1>5. reader' \in [Reader -> ReaderState]
  BY DEF Crash, AtRest, ReaderState, User
<1>6. TypeOK'
  BY <1>2, <1>3, <1>4, <1>5
     DEF Crash, TypeOK, CallState, NoteState, SendState, ReaderState
<1>7. ASSUME NEW c \in Call
      PROVE  /\ call'[c].kind = call[c].kind /\ call'[c].at = call[c].at
             /\ call'[c].pc # call[c].pc => call[c].pc \in UnderWay /\ call'[c].pc = "lost"
  BY <1>2 DEF Crash, CallState
<1>8. \A c \in Call : Orderly(c)'
  BY <1>1, <1>7 DEF Orderly, StageCount, Calls, UnderWay
<1> QED
  BY <1>6, <1>8 DEF CallInv

\* A step that leaves the calls alone.
LEMMA OtherStepInv ==
  ASSUME CallInv, Next, UNCHANGED call
  PROVE  CallInv'
<1>1. TypeOK /\ \A c \in Call : Orderly(c)
  BY DEF CallInv
<1>2. /\ call \in [Call -> CallState] /\ note \in [Id -> NoteState]
      /\ send \in [Id -> SendState] /\ reader \in [Reader -> ReaderState]
      /\ lastCount \in [User -> Nat]
  BY <1>1, TypeFacts
<1>3. \A c \in Call : Orderly(c)'
  BY <1>1 DEF Orderly, StageCount, Calls
<1>4. ASSUME note' \in [Id -> NoteState], send' \in [Id -> SendState],
             reader' \in [Reader -> ReaderState], lastCount' \in [User -> Nat]
      PROVE  CallInv'
  BY <1>2, <1>3, <1>4 DEF CallInv, TypeOK, CallState, NoteState, SendState, ReaderState
<1>5. ASSUME NEW i \in Id, SendStep(i) \/ SendFails(i) PROVE CallInv'
  <2>1. send[i] \in SendState /\ note[i] \in NoteState /\ i.user \in User
    BY <1>1, TypeFacts
  <2>2. ASSUME NEW s \in SendState PROVE [send EXCEPT ![i] = s] \in [Id -> SendState]
    BY <1>2
  <2>3. CASE StoreNote(i)
    <3>1. send' = [send EXCEPT ![i] = [send[i] EXCEPT !.pc = "save"]]
      BY <1>2, <2>3 DEF StoreNote
    <3>2. [send[i] EXCEPT !.pc = "save"] \in SendState
      BY <2>1 DEF SendState, InFlight
    <3>3. note' \in [Id -> NoteState]
      BY <1>2, <2>3 DEF StoreNote, NoteState
    <3> QED
      BY <1>2, <1>4, <2>2, <2>3, <3>1, <3>2, <3>3 DEF StoreNote
  <2>4. CASE SaveDelivery(i)
    <3>1. send' = [send EXCEPT ![i] = [send[i] EXCEPT !.pc = "count"]]
      BY <1>2, <2>4 DEF SaveDelivery
    <3>2. [send[i] EXCEPT !.pc = "count"] \in SendState
      BY <2>1 DEF SendState, InFlight
    <3>3. note' \in [Id -> NoteState]
      BY <1>2, <2>1, <2>4 DEF SaveDelivery, Delivered, NoteState
    <3> QED
      BY <1>2, <1>4, <2>2, <2>4, <3>1, <3>2, <3>3 DEF SaveDelivery
  <2>5. CASE CountForSend(i)
    <3>1. [pc |-> "emit", count |-> Unread(i.user)] \in SendState
      BY UnreadType DEF SendState, InFlight
    <3> QED
      BY <1>2, <1>4, <2>2, <2>5, <3>1 DEF CountForSend
  <2>6. CASE EmitForSend(i)
    <3>1. [pc |-> "sent", count |-> 0] \in SendState /\ send[i].count \in Nat
      BY <2>1 DEF SendState, InFlight
    <3>2. lastCount' \in [User -> Nat]
      BY <1>2, <2>1, <2>6, <3>1 DEF EmitForSend
    <3> QED
      BY <1>2, <1>4, <2>2, <2>6, <3>1, <3>2 DEF EmitForSend
  <2>7. CASE SendFails(i)
    <3>1. [pc |-> "failed", count |-> 0] \in SendState
      BY DEF SendState, InFlight
    <3> QED
      BY <1>2, <1>4, <2>2, <2>7, <3>1 DEF SendFails
  <2> QED
    BY <1>5, <2>3, <2>4, <2>5, <2>6, <2>7 DEF SendStep
<1>6. ASSUME NEW r \in Reader,
             \/ \E i \in Id : MarkAsRead(r, i)
             \/ \E u \in User : MarkAllAsRead(r, u)
             \/ CountForReader(r) \/ EmitForReader(r) \/ ReaderFails(r)
      PROVE  CallInv'
  <2>1. reader[r] \in ReaderState
    BY <1>1, TypeFacts
  <2>2. ASSUME NEW s \in ReaderState PROVE [reader EXCEPT ![r] = s] \in [Reader -> ReaderState]
    BY <1>2
  <2>3. ASSUME NEW n \in NoteState PROVE Read(n) \in NoteState
    BY DEF Read, NoteState
  <2>4. AtRest \in ReaderState
    BY DEF AtRest, ReaderState, User
  <2>5. ASSUME NEW u \in User, Starts(r, u) PROVE reader' \in [Reader -> ReaderState]
    BY <2>2, <2>5 DEF Starts, ReaderState
  <2>6. ASSUME NEW i \in Id, MarkAsRead(r, i) PROVE CallInv'
    <3>1. note' \in [Id -> NoteState] /\ i.user \in User
      BY <1>1, <1>2, <2>3, <2>6, TypeFacts DEF MarkAsRead
    <3> QED
      BY <1>2, <1>4, <2>5, <2>6, <3>1 DEF MarkAsRead
  <2>7. ASSUME NEW u \in User, MarkAllAsRead(r, u) PROVE CallInv'
    <3>1. note' \in [Id -> NoteState]
      BY <1>2, <2>3, <2>7 DEF MarkAllAsRead
    <3> QED
      BY <1>2, <1>4, <2>5, <2>7, <3>1 DEF MarkAllAsRead
  <2>8. CASE CountForReader(r)
    <3> DEFINE s == [reader[r] EXCEPT !.pc = "emit", !.count = Unread(reader[r].user)]
    <3>1. s \in ReaderState
      BY <2>1, UnreadType DEF ReaderState
    <3>2. reader' = [reader EXCEPT ![r] = s]
      BY <1>2, <2>1, <2>8 DEF CountForReader, ReaderState
    <3> QED
      BY <1>2, <1>4, <2>2, <2>8, <3>1, <3>2 DEF CountForReader
  <2>9. CASE EmitForReader(r)
    <3>1. reader[r].user \in User /\ reader[r].count \in Nat
      BY <2>1 DEF ReaderState
    <3>2. lastCount' \in [User -> Nat]
      BY <1>2, <2>9, <3>1 DEF EmitForReader
    <3> QED
      BY <1>2, <1>4, <2>2, <2>4, <2>9, <3>2 DEF EmitForReader
  <2>10. CASE ReaderFails(r)
    BY <1>2, <1>4, <2>2, <2>4, <2>10 DEF ReaderFails
  <2> QED
    BY <1>6, <2>6, <2>7, <2>8, <2>9, <2>10
<1>7. CASE Crash
  BY <1>7, CrashInv
<1>8. ASSUME NEW c \in Call, CallStep(c) PROVE FALSE
  <2>1. call[c] \in CallState /\ Orderly(c) /\ StageCount(c) \in 0 .. 4
    BY <1>1, TypeFacts, CallStages
  <2> QED
    BY <1>2, <1>8, <2>1 DEF CallStep, Fire, AdminsFound, AdminsQueryFails, NextStage,
       Enters, CallState, StageCount
<1> QED
  BY <1>5, <1>6, <1>7, <1>8 DEF Next

LEMMA NextCallInv == CallInv /\ [Next]_vars => CallInv'
<1> SUFFICES ASSUME CallInv, [Next]_vars PROVE CallInv'
  OBVIOUS
<1>1. CASE UNCHANGED vars
  BY <1>1 DEF vars, CallInv, TypeOK, Orderly, StageCount, Calls
<1>2. CASE Next /\ UNCHANGED call
  BY <1>2, OtherStepInv
<1>3. CASE Next /\ call' # call
  <2>1. CASE \E c \in Call : CallStep(c)
    BY <2>1, CallStepInv
  <2>2. ASSUME Crash PROVE CallInv'
    BY <2>2, CrashInv
  <2> QED
    BY <1>3, <2>1, <2>2 DEF Next, SendStep, StoreNote, SaveDelivery, CountForSend,
       EmitForSend, SendFails, MarkAsRead, MarkAllAsRead, CountForReader,
       EmitForReader, ReaderFails
<1> QED
  BY <1>1, <1>2, <1>3

\* Every variable has its type: no call ever goes beyond its last stage, and
\* no delivery or read leaves a document in a state that is none of its own.
THEOREM NotificationTypeCorrect == Spec => []TypeOK
<1>1. Spec => []CallInv
  BY InitCallInv, NextCallInv, PTL DEF Spec
<1>2. CallInv => TypeOK
  BY DEF CallInv
<1> QED
  BY <1>1, <1>2, PTL

-----------------------------------------------------------------------------
(***************************************************************************)
(* What has been sent.  A stage that is over has only sends that are over, *)
(* and none of them failed unless the stage ignores failures; a send knows *)
(* how far its document has come.                                          *)
(***************************************************************************)
Over(c, n) == n < call[c].at \/ (n = call[c].at /\ call[c].pc = "done")

Settled(c, n) ==
  \A i \in Sent(c, n) :
    /\ send[i].pc \in { "sent", "failed" }
    /\ send[i].pc = "failed" => Stages(Calls(c))[n].settles

\* The call has begun the sends of its n-th stage.
Reached(c, n) == n < call[c].at \/ (n = call[c].at /\ call[c].pc # "asking")

Recorded(i) ==
  /\ send[i].pc # "none" => Reached(i.call, i.stage)
  /\ send[i].pc \in { "none", "create" } => note[i] = Absent
  /\ send[i].pc = "save" => note[i].status \in { "PENDING", "READ" }
  /\ send[i].pc \in { "count", "emit", "sent" } =>
       note[i].status \in { "DELIVERED", "READ" }

StagesSettled ==
  \A c \in Call : \A n \in 1 .. StageCount(c) : Over(c, n) => Settled(c, n)

SendInv ==
  /\ CallInv
  /\ StagesSettled
  /\ \A i \in Id : Recorded(i)
  /\ StoppedOnlyByFailure

\* An element of each collection in a state that satisfies SendInv.
LEMMA SendFacts ==
  ASSUME SendInv
  PROVE  /\ call \in [Call -> CallState] /\ note \in [Id -> NoteState]
         /\ send \in [Id -> SendState] /\ reader \in [Reader -> ReaderState]
         /\ \A c \in Call : /\ call[c] \in CallState /\ call[c].at \in 0 .. 4
                            /\ StageCount(c) \in 0 .. 4 /\ Orderly(c)
         /\ \A i \in Id : /\ note[i] \in NoteState /\ send[i] \in SendState
                          /\ i.call \in Call /\ i.stage \in 1 .. 4 /\ i.user \in User
<1>1. TypeOK /\ \A c \in Call : Orderly(c)
  BY DEF SendInv, CallInv
<1>2. \A c \in Call : StageCount(c) \in 0 .. 4
  BY <1>1, CallStages
<1>3. /\ call \in [Call -> CallState] /\ note \in [Id -> NoteState]
      /\ send \in [Id -> SendState] /\ reader \in [Reader -> ReaderState]
      /\ \A c \in Call : call[c] \in CallState
      /\ \A i \in Id : /\ note[i] \in NoteState /\ send[i] \in SendState
                       /\ i.call \in Call /\ i.stage \in 1 .. MaxStages /\ i.user \in User
  BY <1>1, TypeFacts
<1>4. \A c \in Call : call[c].at \in 0 .. 4
  BY <1>3 DEF CallState, MaxStages
<1> QED
  BY <1>1, <1>2, <1>3, <1>4 DEF MaxStages

LEMMA InitSendInv == Init => SendInv
<1> SUFFICES ASSUME Init PROVE SendInv
  OBVIOUS
<1>1. CallInv
  BY InitCallInv
<1>2. \A c \in Call : call[c].at = 0 /\ call[c].pc = "unused"
  BY DEF Init
<1>3. \A c \in Call : \A n \in 1 .. StageCount(c) : ~ Over(c, n)
  BY <1>2 DEF Over
<1>4. \A i \in Id : Recorded(i)
  BY DEF Init, Recorded, Unsent
<1>5. StoppedOnlyByFailure
  BY <1>2 DEF StoppedOnlyByFailure
<1> QED
  BY <1>1, <1>3, <1>4, <1>5 DEF SendInv, StagesSettled

\* The step of one send: its stage is not over, so nothing else is affected.
LEMMA OneSendStep ==
  ASSUME SendInv, CallInv', NEW j \in Id, send[j].pc \in InFlight, UNCHANGED call,
         \A i \in Id : i # j => send'[i] = send[i] /\ note'[i] = note[i],
         Recorded(j)'
  PROVE  SendInv'
<1>1. send[j].pc \notin { "sent", "failed" }
  BY DEF InFlight
<1>2. \A i \in Id : Recorded(i)'
  BY DEF SendInv, Recorded, Reached
<1>3. StagesSettled'
  <2> SUFFICES ASSUME NEW c \in Call, NEW n \in 1 .. StageCount(c)', Over(c, n)',
                      NEW i \in Sent(c, n)'
               PROVE  /\ send'[i].pc \in { "sent", "failed" }
                      /\ send'[i].pc = "failed" => Stages(Calls(c))[n].settles
    BY DEF StagesSettled, Settled, Calls
  <2>1. n \in 1 .. StageCount(c) /\ Over(c, n) /\ i \in Sent(c, n)
    BY DEF StageCount, Calls, Over, Sent
  <2>2. Settled(c, n)
    BY <2>1 DEF SendInv, StagesSettled
  <2>3. i \in Id /\ i # j
    BY <1>1, <2>1, <2>2 DEF Settled, Sent
  <2> QED
    BY <2>1, <2>2, <2>3 DEF Settled
<1>4. StoppedOnlyByFailure'
  <2>1. ASSUME NEW c \in Call, NEW n, NEW i \in Sent(c, n),
               send[i].pc \in { "none", "failed" }
        PROVE  send'[i] = send[i]
    BY <2>1 DEF Sent, InFlight
  <2> QED
    BY <2>1 DEF SendInv, StoppedOnlyByFailure, AdminsUnknown, Sent, Calls
<1> QED
  BY <1>2, <1>3, <1>4 DEF SendInv

LEMMA SendStepInv ==
  ASSUME SendInv, CallInv', NEW j \in Id, SendStep(j) \/ SendFails(j)
  PROVE  SendInv'
<1>1. /\ note \in [Id -> NoteState] /\ send \in [Id -> SendState]
      /\ note[j] \in NoteState /\ send[j] \in SendState
      /\ Recorded(j) /\ UNCHANGED call
  BY SendFacts DEF SendInv, SendStep, StoreNote, SaveDelivery, CountForSend,
     EmitForSend, SendFails
<1>2. ASSUME send[j].pc \in InFlight,
             \A i \in Id : i # j => send'[i] = send[i] /\ note'[i] = note[i],
             Recorded(j)'
      PROVE  SendInv'
  BY <1>1, <1>2, OneSendStep
<1>3. CASE StoreNote(j)
  <2>1. /\ send[j].pc = "create" /\ send'[j].pc = "save" /\ note'[j].status = "PENDING"
        /\ \A i \in Id : i # j => send'[i] = send[i] /\ note'[i] = note[i]
    BY <1>1, <1>3 DEF StoreNote, SendState
  <2> QED
    BY <1>1, <1>2, <2>1 DEF Recorded, Reached, InFlight
<1>4. CASE SaveDelivery(j)
  <2>1. /\ send[j].pc = "save" /\ send'[j].pc = "count" /\ note'[j].status = "DELIVERED"
        /\ \A i \in Id : i # j => send'[i] = send[i] /\ note'[i] = note[i]
    BY <1>1, <1>4 DEF SaveDelivery, Delivered, SendState, NoteState
  <2> QED
    BY <1>1, <1>2, <2>1 DEF Recorded, Reached, InFlight
<1>5. CASE CountForSend(j)
  <2>1. /\ send[j].pc = "count" /\ send'[j].pc = "emit" /\ note' = note
        /\ \A i \in Id : i # j => send'[i] = send[i]
    BY <1>1, <1>5 DEF CountForSend
  <2> QED
    BY <1>1, <1>2, <2>1 DEF Recorded, Reached, InFlight
<1>6. CASE EmitForSend(j)
  <2>1. /\ send[j].pc = "emit" /\ send'[j].pc = "sent" /\ note' = note
        /\ \A i \in Id : i # j => send'[i] = send[i]
    BY <1>1, <1>6 DEF EmitForSend
  <2> QED
    BY <1>1, <1>2, <2>1 DEF Recorded, Reached, InFlight
<1>7. CASE SendFails(j)
  <2>1. /\ send[j].pc \in InFlight /\ send'[j].pc = "failed" /\ note' = note
        /\ \A i \in Id : i # j => send'[i] = send[i]
    BY <1>1, <1>7 DEF SendFails
  <2> QED
    BY <1>1, <1>2, <2>1 DEF Recorded, Reached, InFlight
<1> QED
  BY <1>3, <1>4, <1>5, <1>6, <1>7 DEF SendStep

\* Reading touches stored documents only, and leaves them read.
LEMMA ReadStepInv ==
  ASSUME SendInv, CallInv', UNCHANGED << call, send >>,
         \A i \in Id : \/ note'[i] = note[i]
                       \/ note[i].status # "none" /\ note'[i].status = "READ"
  PROVE  SendInv'
<1>1. \A i \in Id : Recorded(i)'
  <2> SUFFICES ASSUME NEW i \in Id PROVE Recorded(i)'
    OBVIOUS
  <2>1. Recorded(i)
    BY DEF SendInv
  <2>2. CASE note'[i] = note[i]
    BY <2>1, <2>2 DEF Recorded, Reached
  <2>3. CASE note[i].status # "none" /\ note'[i].status = "READ"
    BY <2>1, <2>3 DEF Recorded, Reached, Absent
  <2> QED
    BY <2>2, <2>3
<1>2. StagesSettled'
  BY DEF SendInv, StagesSettled, Settled, Over, Sent, StageCount, Calls
<1>3. StoppedOnlyByFailure'
  BY DEF SendInv, StoppedOnlyByFailure, AdminsUnknown, Sent, Calls
<1> QED
  BY <1>1, <1>2, <1>3 DEF SendInv

\* A crash ends only what is in flight.
LEMMA CrashSendInv ==
  ASSUME SendInv, CallInv', Crash
  PROVE  SendInv'
<1>1. /\ \A c \in Call : /\ call'[c].at = call[c].at /\ Calls(c)' = Calls(c)
                         /\ StageCount(c)' = StageCount(c)
                         /\ call'[c].pc \in { "stopped", "done" } => call'[c].pc = call[c].pc
                         /\ call'[c].pc # "asking"
      /\ note' = note
  BY SendFacts DEF Crash, CallState, Calls, StageCount, UnderWay
<1>2. \A i \in Id : \/ send'[i] = send[i]
                    \/ send[i].pc \in InFlight /\ send'[i].pc = "failed"
  BY SendFacts DEF Crash
<1>3. ASSUME NEW i \in Id PROVE Recorded(i)'
  <2>1. /\ Recorded(i) /\ note'[i] = note[i]
        /\ \A n : Reached(i.call, n) => Reached(i.call, n)'
    BY <1>1, SendFacts DEF SendInv, Reached
  <2>2. CASE send'[i] = send[i]
    BY <2>1, <2>2 DEF Recorded
  <2>3. CASE send[i].pc \in InFlight /\ send'[i].pc = "failed"
    BY <2>1, <2>3 DEF Recorded, InFlight
  <2> QED
    BY <1>2, <2>2, <2>3
<1>4. StagesSettled'
  <2> SUFFICES ASSUME NEW c \in Call, NEW n \in 1 .. StageCount(c)', Over(c, n)',
                      NEW i \in Sent(c, n)'
               PROVE  /\ send'[i].pc \in { "sent", "failed" }
                      /\ send'[i].pc = "failed" => Stages(Calls(c))'[n].settles
    BY DEF StagesSettled, Settled
  <2>1. /\ n \in 1 .. StageCount(c) /\ Over(c, n) /\ i \in Sent(c, n)
        /\ Stages(Calls(c))' = Stages(Calls(c))
    BY <1>1 DEF Over, Sent
  <2>2. Settled(c, n)
    BY <2>1 DEF SendInv, StagesSettled
  <2>3. i \in Id /\ send[i].pc \notin InFlight
    BY <2>1, <2>2 DEF Settled, Sent, InFlight
  <2> QED
    BY <1>2, <2>1, <2>2, <2>3 DEF Settled
<1>5. StoppedOnlyByFailure'
  <2>1. ASSUME NEW c \in Call, NEW n, NEW i \in Sent(c, n),
               send[i].pc \in { "none", "failed" }
        PROVE  send'[i] = send[i]
    BY <1>2, <2>1 DEF Sent, InFlight
  <2> QED
    BY <1>1, <2>1 DEF SendInv, StoppedOnlyByFailure, AdminsUnknown, Sent
<1> QED
  BY <1>3, <1>4, <1>5 DEF SendInv

\* A stage that starts was not reached: nothing of it was sent before.
LEMMA BeginsFresh ==
  ASSUME SendInv, NEW c \in Call, NEW k \in Nat, ~ Reached(c, k), Begins(c, k)
  PROVE  \A i \in Id : \/ send'[i] = send[i]
                       \/ /\ i.call = c /\ i.stage = k /\ note[i] = Absent
                          /\ send[i].pc = "none" /\ send'[i].pc = "create"
<1> SUFFICES ASSUME NEW i \in Id, send'[i] # send[i]
             PROVE  /\ i.call = c /\ i.stage = k /\ note[i] = Absent
                    /\ send[i].pc = "none" /\ send'[i].pc = "create"
  OBVIOUS
<1>1. i.call = c /\ i.stage = k /\ send'[i].pc = "create"
  BY DEF Begins
<1>2. Recorded(i)
  BY DEF SendInv
<1>3. send[i].pc = "none"
  BY <1>1, <1>2 DEF Recorded
<1> QED
  BY <1>1, <1>2, <1>3 DEF Recorded

\* The step of one call: it may end the stage it is at, and start the next.
LEMMA OneCallStep ==
  ASSUME SendInv, CallInv', NEW c \in Call, note' = note,
         \A d \in Call : Calls(d)' = Calls(d) /\ StageCount(d)' = StageCount(d),
         \A d \in Call : d # c => call'[d] = call[d],
         call[c].pc \notin { "stopped", "done" },
         \A n \in 1 .. 4 : Reached(c, n) => Reached(c, n)',
         \A i \in Id : \/ send'[i] = send[i]
                       \/ /\ i.call = c /\ Reached(c, i.stage)' /\ note[i] = Absent
                          /\ send[i].pc = "none" /\ send'[i].pc = "create",
         \A n \in 1 .. StageCount(c) : Over(c, n)' => Over(c, n) \/ Settled(c, n),
         call'[c].pc = "stopped" =>
           /\ UNCHANGED send
           /\ \/ \E i \in Sent(c, call'[c].at) : i.user \notin Admin /\ send[i].pc = "failed"
              \/ /\ Stages(Calls(c))[call'[c].at].settles
                 /\ \A i \in Sent(c, call'[c].at) : send[i].pc = "none"
  PROVE  SendInv'
<1>1. \A d \in Call, n \in 1 .. 4 : Reached(d, n) => Reached(d, n)'
  BY DEF Reached
<1>2. ASSUME NEW i \in Id PROVE Recorded(i)'
  <2>1. Recorded(i) /\ i.call \in Call /\ i.stage \in 1 .. 4
    BY SendFacts DEF SendInv
  <2>2. CASE send'[i] = send[i]
    BY <1>1, <2>1, <2>2 DEF Recorded
  <2>3. CASE send'[i] # send[i]
    BY <2>1, <2>3 DEF Recorded
  <2> QED
    BY <2>2, <2>3
<1>3. StagesSettled'
  <2> SUFFICES ASSUME NEW d \in Call, NEW n \in 1 .. StageCount(d)', Over(d, n)',
                      NEW i \in Sent(d, n)'
               PROVE  /\ send'[i].pc \in { "sent", "failed" }
                      /\ send'[i].pc = "failed" => Stages(Calls(d))'[n].settles
    BY DEF StagesSettled, Settled
  <2>1. /\ n \in 1 .. StageCount(d) /\ i \in Sent(d, n)
        /\ Stages(Calls(d))' = Stages(Calls(d))
    BY DEF Sent
  <2>2. Settled(d, n)
    BY <2>1 DEF SendInv, StagesSettled, Over
  <2>3. i \in Id /\ send[i].pc # "none"
    BY <2>1, <2>2 DEF Settled, Sent
  <2> QED
    BY <2>1, <2>2, <2>3 DEF Settled
<1>4. StoppedOnlyByFailure'
  <2> SUFFICES ASSUME NEW d \in Call, call'[d].pc = "stopped"
               PROVE  \/ \E i \in Sent(d, call[d].at)' : /\ i.user \notin Admin
                                                        /\ send'[i].pc = "failed"
                      \/ AdminsUnknown(d)'
    BY DEF StoppedOnlyByFailure
  <2>1. \A n : Sent(d, n)' = Sent(d, n)
    BY DEF Sent
  <2>2. CASE d = c
    BY <2>1, <2>2 DEF AdminsUnknown
  <2>3. CASE d # c
    <3>1. call'[d] = call[d] /\ \A n : \A i \in Sent(d, n) : send'[i] = send[i]
      BY <2>3 DEF Sent
    <3> QED
      BY <2>1, <3>1 DEF SendInv, StoppedOnlyByFailure, AdminsUnknown
  <2> QED
    BY <2>2, <2>3
<1> QED
  BY <1>2, <1>3, <1>4 DEF SendInv

LEMMA CallSendInv ==
  ASSUME SendInv, NEW c \in Call, CallStep(c)
  PROVE  SendInv'
<1> DEFINE k == call[c].at
<1>1. /\ CallInv' /\ note' = note
      /\ \A d \in Call : Calls(d)' = Calls(d) /\ StageCount(d)' = StageCount(d)
  BY CallStepInv DEF SendInv, CallStep, Fire, AdminsFound, AdminsQueryFails, NextStage
<1>2. /\ call \in [Call -> CallState] /\ call[c] \in CallState /\ Orderly(c)
      /\ k \in 0 .. 4 /\ StageCount(c) \in 0 .. 4
  BY SendFacts
<1>3. \A d \in Call : d # c => call'[d] = call[d]
  BY <1>2 DEF CallStep, Fire, AdminsFound, AdminsQueryFails, NextStage, Enters
\* A later stage, once the one before is settled.
<1>4. ASSUME k + 1 <= StageCount(c), Enters(c, k + 1),
             call[c].pc \in { "unused", "running" },
             \A n \in 1 .. StageCount(c) : n = k => Settled(c, n)
      PROVE  SendInv'
  <2>1. call'[c].at = k + 1 /\ call'[c].pc \in { "running", "asking" }
    BY <1>2, <1>4 DEF Enters, CallState
  <2>2. \A n \in 1 .. StageCount(c) : Over(c, n)' => Over(c, n) \/ Settled(c, n)
    BY <1>2, <1>4, <2>1 DEF Over
  <2>3. \A n \in 1 .. 4 : Reached(c, n) => Reached(c, n)'
    BY <1>2, <2>1 DEF Reached
  <2>4. k + 1 \in Nat /\ ~ Reached(c, k + 1)
    BY <1>2 DEF Reached
  <2>5. \A i \in Id : \/ send'[i] = send[i]
                      \/ /\ i.call = c /\ Reached(c, i.stage)' /\ note[i] = Absent
                         /\ send[i].pc = "none" /\ send'[i].pc = "create"
    <3>1. PICK n \in Nat : n = k + 1
      BY <2>4
    <3>2. CASE UNCHANGED send
      BY <3>2
    <3>3. CASE Begins(c, n) /\ call'[c].pc = "running"
      <4>1. Reached(c, n)' /\ ~ Reached(c, n)
        BY <2>1, <2>4, <3>1, <3>3 DEF Reached
      <4> QED
        BY <3>3, <4>1, BeginsFresh
    <3>4. (Begins(c, n) /\ call'[c].pc = "running") \/ UNCHANGED send
      BY <1>2, <1>4, <3>1 DEF Enters, Begins, CallState
    <3> QED
      BY <3>2, <3>3, <3>4
  <2>6. call'[c].pc # "stopped" /\ call[c].pc \notin { "stopped", "done" }
    BY <1>4, <2>1
  <2> QED
    BY <1>1, <1>3, <2>2, <2>3, <2>5, <2>6, OneCallStep
\* The call ends at the stage it is at.
<1>5. ASSUME NEW pc \in { "stopped", "done" }, call[c].pc \in UnderWay,
             call' = [call EXCEPT ![c].pc = pc], UNCHANGED send,
             pc = "done" => \A n \in 1 .. StageCount(c) : n = k => Settled(c, n),
             pc = "stopped" =>
               \/ \E i \in Sent(c, k) : i.user \notin Admin /\ send[i].pc = "failed"
               \/ /\ Stages(Calls(c))[k].settles
                  /\ \A i \in Sent(c, k) : send[i].pc = "none"
      PROVE  SendInv'
  <2>1. call'[c].pc = pc /\ call'[c].at = k
    BY <1>2, <1>5 DEF CallState
  <2>2. \A n \in 1 .. StageCount(c) : Over(c, n)' => Over(c, n) \/ Settled(c, n)
    BY <1>5, <2>1 DEF Over
  <2>3. \A n \in 1 .. 4 : Reached(c, n) => Reached(c, n)'
    BY <2>1 DEF Reached
  <2>4. call[c].pc \notin { "stopped", "done" }
    BY <1>5 DEF UnderWay
  <2> QED
    BY <1>1, <1>3, <1>5, <2>1, <2>2, <2>3, <2>4, OneCallStep
<1>6. CASE Fire(c)
  <2>1. call[c].pc = "unused" /\ k = 0 /\ Enters(c, k + 1)
    BY <1>2, <1>6 DEF Fire, Orderly
  <2>2. StageCount(c) # 0
    BY <1>2, <1>6, CallStages, EmptySeq
       DEF Fire, SoundStages, SendInv, CallInv, StageCount
  <2>3. k + 1 <= StageCount(c)
    BY <1>2, <2>1, <2>2
  <2> QED
    BY <1>4, <2>1, <2>3
<1>7. CASE AdminsFound(c)
  <2>1. call[c].pc = "asking" /\ call'[c].pc = "running" /\ call'[c].at = k /\ Begins(c, k)
    BY <1>2, <1>7 DEF AdminsFound, CallState
  <2>2. \A n \in 1 .. StageCount(c) : Over(c, n)' => Over(c, n)
    BY <2>1 DEF Over
  <2>3. \A n \in 1 .. 4 : Reached(c, n) => Reached(c, n)'
    BY <2>1 DEF Reached
  <2>4. k \in Nat /\ ~ Reached(c, k) /\ Reached(c, k)'
    BY <1>2, <2>1 DEF Reached
  <2>5. \A i \in Id : \/ send'[i] = send[i]
                      \/ /\ i.call = c /\ Reached(c, i.stage)' /\ note[i] = Absent
                         /\ send[i].pc = "none" /\ send'[i].pc = "create"
    BY <2>1, <2>4, BeginsFresh
  <2> QED
    BY <1>1, <1>3, <2>1, <2>2, <2>3, <2>5, OneCallStep
<1>8. CASE AdminsQueryFails(c)
  <2>1. /\ call[c].pc = "asking" /\ call' = [call EXCEPT ![c].pc = "stopped"]
        /\ UNCHANGED send
    BY <1>8 DEF AdminsQueryFails
  <2>2. Stages(Calls(c))[k].settles
    BY <1>2, <2>1 DEF Orderly
  <2>3. ASSUME NEW i \in Sent(c, k) PROVE send[i].pc = "none"
    <3>1. i \in Id /\ i.call = c /\ i.stage = k /\ Recorded(i)
      BY DEF Sent, SendInv
    <3>2. ~ Reached(c, k)
      BY <1>2, <2>1 DEF Reached
    <3> QED
      BY <3>1, <3>2 DEF Recorded
  <2> QED
    BY <1>5, <2>1, <2>2, <2>3 DEF UnderWay
<1>9. CASE NextStage(c)
  <2>1. /\ call[c].pc = "running" /\ k \in 1 .. StageCount(c)
        /\ \A i \in Sent(c, k) : send[i].pc \in { "sent", "failed" }
    BY <1>2, <1>9 DEF NextStage, Orderly
  <2>2. ~ Rejects(c, k) => Settled(c, k)
    BY <2>1 DEF Rejects, Settled
  <2>3. CASE Rejects(c, k) /\ call' = [call EXCEPT ![c].pc = "stopped"] /\ UNCHANGED send
    <3>1. PICK i \in Sent(c, k) : send[i].pc = "failed" /\ ~ Stages(Calls(c))[k].settles
      BY <2>3 DEF Rejects
    <3>2. SoundStage(Stages(Calls(c))[k])
      BY <2>1, CallStages DEF SendInv, CallInv, SoundStages, StageCount
    <3>3. i.user \notin Admin
      BY <3>1, <3>2 DEF Sent, SoundStage
    <3> QED
      BY <1>5, <2>1, <2>3, <3>1, <3>3 DEF UnderWay
  <2>4. CASE ~ Rejects(c, k) /\ call' = [call EXCEPT ![c].pc = "done"] /\ UNCHANGED send
    BY <1>5, <2>1, <2>2, <2>4 DEF UnderWay
  <2>5. CASE ~ Rejects(c, k) /\ k < StageCount(c) /\ Enters(c, k + 1)
    <3>1. k + 1 <= StageCount(c)
      BY <1>2, <2>5
    <3> QED
      BY <1>4, <2>1, <2>2, <2>5, <3>1
  <2> QED
    BY <1>9, <2>3, <2>4, <2>5 DEF NextStage, StageCount
<1> QED
  BY <1>6, <1>7, <1>8, <1>9 DEF CallStep

\* A reader's steps.
LEMMA ReaderSendInv ==
  ASSUME SendInv, CallInv', NEW r \in Reader,
         \/ \E i \in Id : MarkAsRead(r, i)
         \/ \E u \in User : MarkAllAsRead(r, u)
         \/ CountForReader(r) \/ EmitForReader(r) \/ ReaderFails(r)
  PROVE  /\ SendInv'
         /\ \A i \in Id : note[i].readAt => note'[i].readAt
<1>1. note \in [Id -> NoteState] /\ \A i \in Id : note[i] \in NoteState
  BY SendFacts
<1>2. ASSUME NEW n \in NoteState PROVE Read(n).status = "READ" /\ Read(n).readAt = TRUE
  BY DEF Read, NoteState
<1>3. UNCHANGED << call, send >>
  BY DEF MarkAsRead, MarkAllAsRead, CountForReader, EmitForReader, ReaderFails
<1>4. \A i \in Id : \/ note'[i] = note[i]
                    \/ /\ note[i].status # "none"
                       /\ note'[i].status = "READ" /\ note'[i].readAt = TRUE
  <2>1. ASSUME NEW i \in Id, MarkAsRead(r, i) PROVE <1>4!:
    BY <1>1, <1>2, <2>1 DEF MarkAsRead
  <2>2. ASSUME NEW u \in User, MarkAllAsRead(r, u) PROVE <1>4!:
    BY <1>1, <1>2, <2>2 DEF MarkAllAsRead
  <2>3. CASE CountForReader(r) \/ EmitForReader(r) \/ ReaderFails(r)
    BY <2>3 DEF CountForReader, EmitForReader, ReaderFails
  <2> QED
    BY <2>1, <2>2, <2>3
<1>5. SendInv'
  BY <1>3, <1>4, ReadStepInv
<1> QED
  BY <1>4, <1>5

LEMMA NextSendInv == SendInv /\ [Next]_vars => SendInv'
<1> SUFFICES ASSUME SendInv, [Next]_vars PROVE SendInv'
  OBVIOUS
<1>1. CallInv'
  BY NextCallInv DEF SendInv
<1>2. CASE UNCHANGED vars
  BY <1>1, <1>2, ReadStepInv DEF vars
<1>3. ASSUME NEW c \in Call, CallStep(c) PROVE SendInv'
  BY <1>3, CallSendInv
<1>4. ASSUME NEW i \in Id, SendStep(i) \/ SendFails(i) PROVE SendInv'
  BY <1>1, <1>4, SendStepInv
<1>5. ASSUME NEW r \in Reader,
             \/ \E i \in Id : MarkAsRead(r, i)
             \/ \E u \in User : MarkAllAsRead(r, u)
             \/ CountForReader(r) \/ EmitForReader(r) \/ ReaderFails(r)
      PROVE  SendInv'
  BY <1>1, <1>5, ReaderSendInv
<1>6. CASE Crash
  BY <1>1, <1>6, CrashSendInv
<1> QED
  BY <1>2, <1>3, <1>4, <1>5, <1>6 DEF Next

LEMMA SendAlways == Spec => []SendInv
BY InitSendInv, NextSendInv, PTL DEF Spec

\* A notification whose sending went through is never left PENDING, although
\* its recipient may mark it read between the delivery and its save.
THEOREM SendsAlwaysDelivered == Spec => []SentIsDelivered
<1>1. SendInv => SentIsDelivered
  BY DEF SendInv, SentIsDelivered, Recorded
<1> QED
  BY <1>1, SendAlways, PTL

\* What is stored is a notification, and not left PENDING by a sending that
\* went through: both of the above.
THEOREM SendsAlwaysWhole == Spec => []SendsAreWhole
BY NotificationTypeCorrect, SendsAlwaysDelivered, PTL DEF SendsAreWhole

\* Once read, never unread: the save that follows a delivery writes the
\* status alone, and a document is created only before anybody can read it.
THEOREM ReadAlwaysStays == Spec => ReadStays
<1>1. ASSUME SendInv, Next, NEW i \in Id, note[i].readAt PROVE note'[i].readAt
  <2>1. note \in [Id -> NoteState] /\ note[i] \in NoteState
    BY <1>1, SendFacts
  <2>2. ASSUME NEW j \in Id, SendStep(j) \/ SendFails(j) PROVE note'[i].readAt
    <3>1. CASE StoreNote(j)
      <4>1. note[j] = Absent
        BY <1>1, <3>1 DEF SendInv, Recorded, StoreNote
      <4>2. i # j
        BY <1>1, <4>1 DEF Absent
      <4> QED
        BY <1>1, <2>1, <3>1, <4>2 DEF StoreNote
    <3>2. CASE SaveDelivery(j)
      BY <1>1, <2>1, <3>2 DEF SaveDelivery, Delivered, NoteState
    <3>3. CASE CountForSend(j) \/ EmitForSend(j) \/ SendFails(j)
      BY <1>1, <3>3 DEF CountForSend, EmitForSend, SendFails
    <3> QED
      BY <2>2, <3>1, <3>2, <3>3 DEF SendStep
  <2>3. CASE \E r \in Reader : \/ \E j \in Id : MarkAsRead(r, j)
                               \/ \E u \in User : MarkAllAsRead(r, u)
                               \/ CountForReader(r) \/ EmitForReader(r) \/ ReaderFails(r)
    <3>1. CallInv'
      BY <1>1, NextCallInv DEF SendInv
    <3> QED
      BY <1>1, <2>3, <3>1, ReaderSendInv
  <2>4. CASE (\E c \in Call : CallStep(c)) \/ Crash
    BY <1>1, <2>4 DEF CallStep, Fire, AdminsFound, AdminsQueryFails, NextStage, Crash
  <2> QED
    BY <1>1, <2>2, <2>3, <2>4 DEF Next
<1>2. SendInv /\ [Next]_vars => [\A i \in Id : note[i].readAt => note'[i].readAt]_vars
  BY <1>1
<1> QED
  BY <1>2, SendAlways, PTL DEF Spec, ReadStays

\* Nobody whom an event concerns is left untold but through a failure: in the
\* stages of a call that is done every send went through, or it was an alert
\* to an admin, and a call stops early only when the message to the customer
\* or the provider failed, or when the query for the admins did, in which case
\* none of their alerts had begun.
THEOREM AlwaysToldUnlessFailed == Spec => []ToldUnlessFailed
<1>1. SendInv => EveryoneTold
  <2> SUFFICES ASSUME SendInv, NEW c \in Call, call[c].pc = "done",
                      NEW u \in Concerned(Calls(c))
               PROVE  Told(c, u) \/ (u \in Admin /\ SendFailed(c, u))
    BY DEF EveryoneTold
  <2>1. Tells(Stages(Calls(c)), u)
    BY CallStages DEF SendInv, CallInv
  <2>2. PICK n \in 1 .. StageCount(c) :
               /\ u \in Stages(Calls(c))[n].to
               /\ Stages(Calls(c))[n].settles => u \in Admin
    BY <2>1 DEF Tells, StageCount
  <2>3. StageCount(c) \in 0 .. 4 /\ call[c].at = StageCount(c)
    BY SendFacts DEF Orderly
  <2>4. Over(c, n) /\ n \in 1 .. MaxStages
    BY <2>3 DEF Over, MaxStages
  <2> DEFINE i == [call |-> c, stage |-> n, user |-> u]
  <2>5. u \in User
    BY DEF Concerned, User
  <2>6. i \in Sent(c, n) /\ i \in Id /\ i.call = c /\ i.user = u
    BY <2>2, <2>4, <2>5 DEF Sent, Id
  <2> HIDE DEF i
  <2>7. /\ send[i].pc \in { "sent", "failed" }
        /\ send[i].pc = "failed" => Stages(Calls(c))[n].settles
    BY <2>4, <2>6 DEF SendInv, StagesSettled, Settled
  <2>8. CASE send[i].pc = "sent"
    BY <2>6, <2>8 DEF SendInv, Recorded, Told
  <2>9. CASE send[i].pc = "failed"
    BY <2>2, <2>6, <2>7, <2>9 DEF SendFailed
  <2> QED
    BY <2>7, <2>8, <2>9
<1>2. SendInv => ToldUnlessFailed
  BY <1>1 DEF SendInv, ToldUnlessFailed
<1> QED
  BY <1>2, SendAlways, PTL

-----------------------------------------------------------------------------
(***************************************************************************)
(* The count on the screen, when one call or reader is in flight at a time *)
(* and nothing fails.  The alerts to the admins still interleave, but each *)
(* admin has a count of their own.                                         *)
(***************************************************************************)
Running(i) == send[i].pc \in InFlight

OneThing ==
  /\ \A c, d \in Call : call[c].pc \in UnderWay /\ call[d].pc \in UnderWay => c = d
  /\ \A c \in Call, r \in Reader : call[c].pc \in UnderWay => reader[r].pc = "idle"
  /\ \A r, q \in Reader : reader[r].pc # "idle" /\ reader[q].pc # "idle" => r = q
  /\ \A i \in Id : Running(i) => /\ call[i.call].pc = "running"
                                /\ i \in Sent(i.call, call[i.call].at)

\* A push of u's count is still to come.
Dirty(u) ==
  \/ \E i \in Id : i.user = u /\ send[i].pc \in { "save", "count", "emit" }
  \/ \E r \in Reader : reader[r].user = u /\ reader[r].pc # "idle"

CountInv ==
  /\ SendInv
  /\ OneThing
  /\ \A u \in User : ~ Dirty(u) => lastCount[u] = Unread(u)
  /\ \A i \in Id : send[i].pc = "emit" => send[i].count = Unread(i.user)
  /\ \A r \in Reader : reader[r].pc = "emit" => reader[r].count = Unread(reader[r].user)

LEMMA UnreadSame ==
  ASSUME NEW u, \A i \in Id : i.user = u => note'[i] = note[i]
  PROVE  Unread(u)' = Unread(u)
BY DEF Unread

LEMMA InitCountInv == Init => CountInv
<1> SUFFICES ASSUME Init PROVE CountInv
  OBVIOUS
<1>1. OneThing
  BY DEF Init, OneThing, Running, InFlight, UnderWay, Unsent, AtRest
<1>2. ASSUME NEW u \in User PROVE lastCount[u] = Unread(u)
  <2>1. { i \in Id : /\ i.user = u /\ note[i].status \notin { "none", "READ" }
                     /\ ~ note[i].readAt } = { }
    BY DEF Init, Absent
  <2>2. Unread(u) = 0
    BY <2>1, FS_EmptySet DEF Unread
  <2> QED
    BY <2>2 DEF Init
<1>3. /\ \A i \in Id : send[i].pc # "emit"
      /\ \A r \in Reader : reader[r].pc # "emit"
  BY DEF Init, Unsent, AtRest
<1> QED
  BY <1>1, <1>2, <1>3, InitSendInv DEF CountInv

\* A send works on its own user's notifications only: no other send that is
\* in flight, and no reader, has the same user.
LEMMA SendCountInv ==
  ASSUME CountInv, ~ Faults, SendInv', NEW j \in Id, SendStep(j)
  PROVE  CountInv'
<1>1. /\ note \in [Id -> NoteState] /\ send \in [Id -> SendState]
      /\ note[j] \in NoteState /\ send[j] \in SendState /\ j.user \in User
      /\ lastCount \in [User -> Nat]
  BY SendFacts DEF CountInv, SendInv, CallInv, TypeOK
<1>2. /\ send[j].pc \in InFlight /\ UNCHANGED << call, reader >>
      /\ \A i \in Id : i # j => send'[i] = send[i] /\ note'[i] = note[i]
      /\ \A u \in User : u # j.user => lastCount'[u] = lastCount[u]
  BY <1>1 DEF SendStep, StoreNote, SaveDelivery, CountForSend, EmitForSend, InFlight
<1>3. OneThing'
  BY <1>2 DEF CountInv, OneThing, Running, Sent, Calls
<1>4. \A u \in User : u # j.user => Unread(u)' = Unread(u)
  BY <1>2, UnreadSame
<1>5. \A r \in Reader : reader[r].pc = "idle"
  <2>1. call[j.call].pc = "running" /\ j.call \in Call
    BY <1>2, SendFacts DEF CountInv, OneThing, Running
  <2> QED
    BY <2>1 DEF CountInv, OneThing, UnderWay
<1>6. ASSUME NEW i \in Id, send[i].pc = "emit", i # j PROVE i.user # j.user
  <2>1. Running(i) /\ Running(j)
    BY <1>2, <1>6 DEF Running, InFlight
  <2>2. i.call = j.call /\ i.stage = call[i.call].at /\ j.stage = call[j.call].at
    BY <2>1, SendFacts DEF CountInv, OneThing, UnderWay, Sent
  <2> QED
    BY <1>6, <2>2 DEF Id
<1>7. ASSUME NEW u \in User, u # j.user, ~ Dirty(u)' PROVE lastCount'[u] = Unread(u)'
  <2>1. ~ Dirty(u)
    BY <1>2, <1>7 DEF Dirty
  <2> QED
    BY <1>2, <1>4, <1>7, <2>1 DEF CountInv
<1>8. ASSUME NEW i \in Id, i # j, send'[i].pc = "emit" PROVE send'[i].count = Unread(i.user)'
  <2>1. send[i].pc = "emit" /\ send'[i] = send[i] /\ i.user \in User
    BY <1>2, <1>8, SendFacts DEF CountInv
  <2> QED
    BY <1>4, <1>6, <1>8, <2>1 DEF CountInv
<1>9. /\ ~ Dirty(j.user)' => lastCount'[j.user] = Unread(j.user)'
      /\ send'[j].pc = "emit" => send'[j].count = Unread(j.user)'
  <2>1. CASE StoreNote(j)
    BY <1>1, <2>1 DEF StoreNote, Dirty, SendState
  <2>2. CASE SaveDelivery(j)
    BY <1>1, <2>2 DEF SaveDelivery, Dirty, SendState
  <2>3. CASE CountForSend(j)
    <3>1. Unread(j.user)' = Unread(j.user)
      BY <2>3, UnreadSame DEF CountForSend
    <3> QED
      BY <1>1, <2>3, <3>1 DEF CountForSend, Dirty
  <2>4. CASE EmitForSend(j)
    <3>1. Unread(j.user)' = Unread(j.user)
      BY <2>4, UnreadSame DEF EmitForSend
    <3>2. send[j].count = Unread(j.user)
      BY <2>4 DEF CountInv, EmitForSend
    <3> QED
      BY <1>1, <2>4, <3>1, <3>2 DEF EmitForSend
  <2> QED
    BY <2>1, <2>2, <2>3, <2>4 DEF SendStep
<1> QED
  BY <1>2, <1>3, <1>5, <1>7, <1>8, <1>9 DEF CountInv

\* A call starts only when nothing is in flight, and moves on only when its
\* stage is over.
LEMMA CallCountInv ==
  ASSUME CountInv, ~ Overlap, ~ Faults, SendInv', NEW c \in Call, CallStep(c)
  PROVE  CountInv'
<1>1. /\ call \in [Call -> CallState] /\ call[c] \in CallState
      /\ call[c].at \in 0 .. 4 /\ Orderly(c)
  BY SendFacts DEF CountInv
<1>2. /\ UNCHANGED << note, reader, lastCount >>
      /\ \A d \in Call : d # c => call'[d] = call[d]
      /\ \A d \in Call : Calls(d)' = Calls(d)
  BY <1>1, CallStepInv
     DEF CountInv, SendInv, CallStep, Fire, AdminsFound, AdminsQueryFails, NextStage, Enters
<1>3. /\ \A d \in Call : d # c => call[d].pc \notin UnderWay
      /\ \A r \in Reader : reader[r].pc = "idle"
  BY DEF CountInv, OneThing, CallStep, Fire, AdminsFound, AdminsQueryFails, NextStage,
     Quiet, UnderWay
<1>4. \A i \in Id : ~ Running(i)
  <2> SUFFICES ASSUME NEW i \in Id, Running(i) PROVE FALSE
    OBVIOUS
  <2>1. call[i.call].pc = "running" /\ i \in Sent(i.call, call[i.call].at) /\ i.call \in Call
    BY SendFacts DEF CountInv, OneThing
  <2>2. i.call = c /\ NextStage(c)
    BY <1>3, <2>1 DEF CallStep, Fire, AdminsFound, AdminsQueryFails, UnderWay
  <2> QED
    BY <2>1, <2>2 DEF NextStage, Running, InFlight
<1>5. \A i \in Id : \/ send'[i] = send[i]
                    \/ /\ send'[i].pc = "create" /\ i \in Sent(c, call'[c].at)
                       /\ i.call = c /\ call'[c].pc = "running"
  <2>1. ASSUME NEW k, Begins(c, k)
        PROVE  \A i \in Id : \/ send'[i] = send[i]
                             \/ send'[i].pc = "create" /\ i \in Sent(c, k) /\ i.call = c
    BY <2>1 DEF Begins, Sent
  <2>2. ASSUME NEW k, Enters(c, k), ~ UNCHANGED send
        PROVE  Begins(c, k) /\ call'[c].at = k /\ call'[c].pc = "running"
    BY <1>1, <2>2 DEF Enters, CallState
  <2>3. CASE Fire(c) \/ NextStage(c)
    BY <2>1, <2>2, <2>3 DEF Fire, NextStage
  <2>4. CASE AdminsFound(c)
    <3>1. /\ Begins(c, call[c].at) /\ call'[c].at = call[c].at
          /\ call'[c].pc = "running"
      BY <1>1, <2>4 DEF AdminsFound, CallState
    <3> QED
      BY <2>1, <3>1
  <2> QED
    BY <2>3, <2>4 DEF CallStep, AdminsQueryFails
<1>6. OneThing'
  <2>1. ASSUME NEW i \in Id, Running(i)'
        PROVE  call'[i.call].pc = "running" /\ i \in Sent(i.call, call[i.call].at)'
    <3>1. /\ send'[i].pc = "create" /\ i \in Sent(c, call'[c].at)
          /\ i.call = c /\ call'[c].pc = "running"
      BY <1>4, <1>5, <2>1 DEF Running
    <3> QED
      BY <1>2, <3>1 DEF Sent
  <2> QED
    BY <1>2, <1>3, <2>1 DEF OneThing
<1>7. ASSUME NEW u \in User PROVE /\ Unread(u)' = Unread(u) /\ ~ Dirty(u)
  BY <1>2, <1>3, <1>4, UnreadSame DEF Dirty, Running, InFlight
<1>8. \A i \in Id : send'[i].pc # "emit"
  BY <1>4, <1>5 DEF Running, InFlight
<1> QED
  BY <1>2, <1>3, <1>6, <1>7, <1>8 DEF CountInv

\* A reader works alone.
LEMMA ReaderCountInv ==
  ASSUME CountInv, ~ Overlap, SendInv', NEW r \in Reader,
         \/ \E i \in Id : MarkAsRead(r, i)
         \/ \E u \in User : MarkAllAsRead(r, u)
         \/ CountForReader(r) \/ EmitForReader(r)
  PROVE  CountInv'
<1>1. /\ reader \in [Reader -> ReaderState] /\ reader[r] \in ReaderState
      /\ note \in [Id -> NoteState] /\ lastCount \in [User -> Nat]
  BY SendFacts, TypeFacts DEF CountInv, SendInv, CallInv
<1>2. /\ UNCHANGED << call, send >>
      /\ \A q \in Reader : q # r => reader'[q] = reader[q]
  BY <1>1 DEF MarkAsRead, MarkAllAsRead, Starts, CountForReader, EmitForReader
<1>3. /\ \A c \in Call : call[c].pc \notin UnderWay
      /\ \A q \in Reader : q # r => reader[q].pc = "idle"
  BY DEF CountInv, OneThing, MarkAsRead, MarkAllAsRead, Starts, CountForReader,
     EmitForReader, Quiet
<1>4. \A i \in Id : ~ Running(i)
  BY <1>3, SendFacts DEF CountInv, OneThing, UnderWay
<1>5. OneThing'
  BY <1>2, <1>3, <1>4 DEF OneThing, Running
<1>6. \A i \in Id : send'[i].pc \notin { "save", "count", "emit" }
  BY <1>2, <1>4 DEF Running, InFlight
<1>7. ASSUME NEW v \in User,
             \A u \in User : u # v => Unread(u)' = Unread(u) /\ lastCount'[u] = lastCount[u],
             reader[r].pc # "idle" => reader[r].user = v,
             reader'[r].pc # "idle" => reader'[r].user = v,
             reader'[r].pc = "emit" => reader'[r].count = Unread(v)',
             reader'[r].pc = "idle" => lastCount'[v] = Unread(v)'
      PROVE  CountInv'
  <2>1. ASSUME NEW u \in User, ~ Dirty(u)' PROVE lastCount'[u] = Unread(u)'
    <3>1. CASE u = v
      <4>1. reader'[r].pc = "idle"
        BY <1>7, <2>1, <3>1 DEF Dirty
      <4> QED
        BY <1>7, <3>1, <4>1
    <3>2. CASE u # v
      <4>1. ~ Dirty(u)
        BY <1>3, <1>4, <1>7, <3>2 DEF Dirty, Running, InFlight
      <4> QED
        BY <1>7, <3>2, <4>1 DEF CountInv
    <3> QED
      BY <3>1, <3>2
  <2>2. (\A q \in Reader : reader[q].pc = "emit" => reader[q].count = Unread(reader[q].user))'
    <3> SUFFICES ASSUME NEW q \in Reader, reader'[q].pc = "emit"
                 PROVE  (reader[q].count = Unread(reader[q].user))'
      OBVIOUS
    <3>1. q = r
      BY <1>2, <1>3
    <3>2. reader'[q].user = v /\ reader'[q].count = Unread(v)'
      BY <1>7, <3>1
    <3> QED
      BY <3>2 DEF Unread
  <2> QED
    BY <1>5, <1>6, <2>1, <2>2 DEF CountInv
<1>8. ASSUME NEW v \in User, Starts(r, v), UNCHANGED lastCount,
             \A i \in Id : i.user # v => note'[i] = note[i]
      PROVE  CountInv'
  <2>1. reader[r].pc = "idle" /\ reader'[r].pc = "count" /\ reader'[r].user = v
    BY <1>1, <1>8 DEF Starts
  <2>2. \A u \in User : u # v => Unread(u)' = Unread(u)
    BY <1>8, UnreadSame
  <2> QED
    BY <1>7, <1>8, <2>1, <2>2
<1>9. ASSUME NEW i \in Id, MarkAsRead(r, i) PROVE CountInv'
  BY <1>1, <1>8, <1>9, SendFacts DEF MarkAsRead, CountInv
<1>10. ASSUME NEW u \in User, MarkAllAsRead(r, u) PROVE CountInv'
  BY <1>8, <1>10 DEF MarkAllAsRead
<1>11. ASSUME UNCHANGED note PROVE \A u \in User : Unread(u)' = Unread(u)
  BY <1>11, UnreadSame
<1>12. reader[r].user \in User
  BY <1>1 DEF ReaderState
<1>13. CASE CountForReader(r)
  <2>1. /\ reader[r].pc = "count" /\ reader'[r].pc = "emit"
        /\ reader'[r].user = reader[r].user /\ reader'[r].count = Unread(reader[r].user)
    BY <1>1, <1>13 DEF CountForReader, ReaderState
  <2> QED
    BY <1>7, <1>11, <1>12, <1>13, <2>1 DEF CountForReader
<1>14. CASE EmitForReader(r)
  <2>1. /\ reader[r].pc = "emit" /\ reader'[r].pc = "idle"
        /\ lastCount'[reader[r].user] = reader[r].count
        /\ \A u \in User : u # reader[r].user => lastCount'[u] = lastCount[u]
    BY <1>1, <1>12, <1>14 DEF EmitForReader, AtRest
  <2>2. reader[r].count = Unread(reader[r].user)
    BY <2>1 DEF CountInv
  <2> QED
    BY <1>7, <1>11, <1>12, <1>14, <2>1, <2>2 DEF EmitForReader
<1> QED
  BY <1>9, <1>10, <1>13, <1>14

LEMMA StepCountInv ==
  ASSUME ~ Overlap, ~ Faults, CountInv, [Next]_vars
  PROVE  CountInv'
<1>1. SendInv'
  BY NextSendInv DEF CountInv
<1>2. CASE UNCHANGED vars
  <2>1. UNCHANGED << call, note, send, reader, lastCount >>
    BY <1>2 DEF vars
  <2>2. ASSUME NEW u PROVE Unread(u)' = Unread(u)
    BY <2>1, UnreadSame
  <2>3. OneThing' /\ \A u \in User : Dirty(u)' = Dirty(u)
    BY <2>1 DEF CountInv, OneThing, Running, Dirty, Sent, Calls
  <2> QED
    BY <1>1, <2>1, <2>2, <2>3 DEF CountInv
<1>3. ASSUME NEW c \in Call, CallStep(c) PROVE CountInv'
  BY <1>1, <1>3, CallCountInv
<1>4. ASSUME NEW i \in Id, SendStep(i) PROVE CountInv'
  BY <1>1, <1>4, SendCountInv
<1>5. ASSUME NEW r \in Reader,
             \/ \E i \in Id : MarkAsRead(r, i)
             \/ \E u \in User : MarkAllAsRead(r, u)
             \/ CountForReader(r) \/ EmitForReader(r)
      PROVE  CountInv'
  BY <1>1, <1>5, ReaderCountInv
<1> QED
  BY <1>2, <1>3, <1>4, <1>5 DEF Next, SendFails, ReaderFails, Crash

LEMMA CountRight == CountInv => CountRightWhenQuiet
<1> SUFFICES ASSUME CountInv, Quiet, NEW u \in User PROVE ~ Dirty(u)
  BY DEF CountInv, CountRightWhenQuiet
<1>1. \A i \in Id : ~ Running(i)
  BY SendFacts DEF CountInv, OneThing, Quiet, UnderWay
<1> QED
  BY <1>1 DEF Dirty, Quiet, Running, InFlight

\* With one thing at a time and no failure, every user's sockets show the
\* number of unread notifications whenever nothing is in flight: each change
\* of what is unread is followed by a count and a push of it.
THEOREM CountAlwaysRight ==
  ASSUME ~ Overlap, ~ Faults
  PROVE  Spec => []CountRightWhenQuiet
<1>1. CountInv /\ [Next]_vars => CountInv'
  BY StepCountInv
<1> QED
  BY <1>1, InitCountInv, CountRight, PTL DEF Spec

\* The same of the run, whatever its other world does: the racing one shares
\* the variables, but a behaviour never crosses over.
THEOREM CountIsAlwaysRight ==
  ASSUME ~ Overlap, ~ Faults
  PROVE  WorldsSpec => []CountIsRight
<1> DEFINE I == world = "quiet" => CountInv
<1>1. WorldsInit => I
  BY InitCountInv DEF WorldsInit
<1>2. I /\ [WorldsNext]_<< vars, world >> => I'
  <2> SUFFICES ASSUME I, [WorldsNext]_<< vars, world >>, world' = "quiet"
               PROVE  CountInv'
    OBVIOUS
  <2>1. world = "quiet" /\ [Next]_vars
    BY DEF WorldsNext
  <2> QED
    BY <2>1, StepCountInv
<1>3. I => CountIsRight
  BY CountRight DEF CountIsRight
<1> QED
  BY <1>1, <1>2, <1>3, PTL DEF WorldsSpec

=============================================================================
