---------------------------- MODULE Services_proofs ----------------------------
(***************************************************************************)
(* What the services of the control plane keep, each on its own, for all   *)
(* values of their constants.                                              *)
(***************************************************************************)
EXTENDS Naturals, Sequences, FiniteSetTheorems, SequenceTheorems, TLAPS

CONSTANTS
  None, Unset,
  \* Accounts
  Ids, Root, Member, Names, RootName, MemberName, ExternalName, Pipelines,
  Hello, AccountRequests, Kinds, MaxAppStarts,
  \* Launcher
  JobRequests, Invalid, MaxTasks, MaxApiErrors, MaxSlow, MaxLosses,
  \* Messenger
  Upstreams, MaxStarts, MayMoveEarly, MayTimeOut,
  \* OperatorCatalogue
  Images, Workers, CatalogueRequests, MaxVersion, MaxFiles, MaxErrors,
  \* Parameters
  Replicas, MaxUpdates, InvalidUpdates, MaxDeaths, MaxBreaks, MaxRepeats,
  \* KeyValueLoop
  Callers, Impatient, MaxValue, MaxOutages, MaxRefreshes, MaxLostReplies,
  MaxLoopUpdates, ATTEMPTS, MayStop, MayEnd,
  \* Operator
  Triggers, Drains, Unknown, HasInputs, IsAsync, MaxRetries, MayFail

VARIABLES
  \* Accounts
  users, accountPipelines, accountUsed, accountRequests, accountStarts,
  \* Launcher
  request, consumer, launcherTask, job, launcherMonitor, launcherErrors,
  apiErrors, slow, losses,
  \* Messenger
  messengerStarts, published, stage, addressMap, connections, connectedTo,
  watched, messengerUpdates, state, msg,
  \* OperatorCatalogue
  registry, local, cache, catalogueRequests, catalogueShown, catalogueErrors,
  \* Parameters
  parameterUpdates, process, next, first, held, acks, parameterShown, missed,
  parameterBudget,
  \* KeyValueLoop
  loopValue, store, wire, linked, running, loopEvent, bucket, loopPc,
  loopBudget,
  \* Operator
  life, kernelEvent, kernelPc, kernelLock, kernels, errorState, errorCount,
  status, kernelErrors, opened

People == INSTANCE Accounts WITH
  Requests <- AccountRequests, MaxStarts <- MaxAppStarts,
  pipelines <- accountPipelines, used <- accountUsed,
  requests <- accountRequests, starts <- accountStarts

Jobs == INSTANCE Launcher WITH
  Requests <- JobRequests, task <- launcherTask, monitor <- launcherMonitor,
  errors <- launcherErrors

Sockets == INSTANCE Messenger WITH
  starts <- messengerStarts, updates <- messengerUpdates

Catalogue == INSTANCE OperatorCatalogue WITH
  Requests <- CatalogueRequests, requests <- catalogueRequests,
  shown <- catalogueShown, errors <- catalogueErrors

Params == INSTANCE Parameters WITH
  Invalid <- InvalidUpdates, updates <- parameterUpdates,
  shown <- parameterShown, budget <- parameterBudget

Keys == INSTANCE KeyValueLoop WITH
  MaxUpdates <- MaxLoopUpdates, value <- loopValue, event <- loopEvent,
  pc <- loopPc, budget <- loopBudget

Process == INSTANCE Operator WITH
  event <- kernelEvent, pc <- kernelPc, lock <- kernelLock,
  errors <- kernelErrors

------------------------------------------------------------------------------
LEMMA AtMostOne ==
  ASSUME NEW S, \A x, y \in S : x = y
  PROVE  Cardinality(S) <= 1
<1>1. CASE S = {}
  BY <1>1, FS_EmptySet
<1>2. CASE S # {}
  <2>1. PICK x \in S : S = {x}
    BY <1>2
  <2>2. Cardinality({x}) = 1
    BY FS_Singleton
  <2>3. QED
    BY <2>1, <2>2
<1>3. QED
  BY <1>1, <1>2

(* Users and their pipelines.                                              *)
Row == [name : Names, super : BOOLEAN, active : BOOLEAN]
Change ==
  [name : Names \cup {Unset}, super : BOOLEAN \cup {Unset}, active : BOOLEAN \cup {Unset}]
AccountRequest ==
  [pc : {"new", "known", "checked", "refused", "failed", "ok"},
   kind : Kinds \cup {None, "external"}, user : Ids \cup {None}, target : Ids \cup {None},
   change : Change, read : Row \cup {None}]

UsersTypeOK ==
  /\ users \in [Ids -> Row \cup {None}] /\ People!Present \subseteq accountUsed
  /\ accountPipelines \in [Pipelines -> Ids \cup {None}]
  /\ accountRequests \in [AccountRequests -> AccountRequest]

(* A request under way is one of a user for a user, or for a name.         *)
MakesSense(q) ==
  q.pc \in {"known", "checked"} =>
    /\ q.kind \in {"create", "external"} => q.change.name \in Names
    /\ q.kind \in {"rename", "update", "leave", "remove"} => q.target \in Ids
    /\ q.kind # "external" => q.user \in Ids

RequestsMakeSense == \A r \in AccountRequests : MakesSense(accountRequests[r])

PeopleInv == UsersTypeOK /\ RequestsMakeSense /\ People!OwnersExist /\ People!NamesApart

LEMMA RowsAreThere == People!AccountsAssumption => None \notin Row /\ None \notin Ids
BY DEF People!AccountsAssumption, Row

LEMMA ChangedIsRow ==
  ASSUME NEW row \in Row, NEW read, NEW c \in Change
  PROVE  /\ People!Changed(row, read, c) \in Row
         /\ \A f \in People!Fields : People!Changed(row, read, c)[f] \in {row[f], c[f]}
         /\ People!Changed(row, read, c).name # row.name => 
              c.name = People!Changed(row, read, c).name /\ c.name # read.name
BY DEF Row, Change, People!Changed, People!Fields

LEMMA AsksType ==
  ASSUME NEW kind, NEW ask \in People!AsksOf(kind)
  PROVE  /\ ask[1] \in Ids \cup {None} /\ ask[2] \in Change
         /\ kind = "create" => ask[2].name \in Names
         /\ kind \in {"update", "remove"} => ask[1] \in Ids
<1>1. People!NoChange \in Change
  BY DEF People!NoChange, People!Fields, Change
<1>2. People!Changes \subseteq Change
  BY DEF People!Changes, Change
<1>3. CASE kind = "create"
  BY <1>3 DEF People!AsksOf, Change
<1>4. CASE kind = "rename"
  BY <1>4 DEF People!AsksOf, Change
<1>5. CASE kind = "update"
  BY <1>2, <1>5 DEF People!AsksOf
<1>6. CASE kind = "remove"
  BY <1>1, <1>6 DEF People!AsksOf
<1>7. CASE kind # "create" /\ kind # "rename" /\ kind # "update" /\ kind # "remove"
  BY <1>1, <1>7 DEF People!AsksOf
<1>8. QED
  BY <1>3, <1>4, <1>5, <1>6, <1>7

LEMMA RequestMoves ==
  ASSUME UsersTypeOK, RequestsMakeSense, NEW r \in AccountRequests, NEW q \in AccountRequest,
         MakesSense(q), accountRequests' = [accountRequests EXCEPT ![r] = q]
  PROVE  accountRequests' \in [AccountRequests -> AccountRequest] /\ RequestsMakeSense'
BY DEF UsersTypeOK, RequestsMakeSense

LEMMA RequestGoes ==
  ASSUME UsersTypeOK, RequestsMakeSense, NEW r \in AccountRequests,
         NEW pc \in {"known", "checked", "refused", "failed", "ok"},
         pc \in {"known", "checked"} => accountRequests[r].pc \in {"known", "checked"},
         People!Goes(r, pc)
  PROVE  accountRequests' \in [AccountRequests -> AccountRequest] /\ RequestsMakeSense'
<1>. DEFINE q == [accountRequests[r] EXCEPT !.pc = pc]
<1>1. accountRequests[r] \in AccountRequest /\ MakesSense(accountRequests[r])
  BY DEF UsersTypeOK, RequestsMakeSense
<1>2. q \in AccountRequest /\ MakesSense(q)
  BY <1>1 DEF AccountRequest, MakesSense
<1>3. accountRequests' = [accountRequests EXCEPT ![r] = q]
  BY DEF People!Goes, UsersTypeOK
<1>4. QED
  BY <1>2, <1>3, RequestMoves

(* Where users and pipelines are left alone.                               *)
LEMMA OnlyRequests ==
  ASSUME PeopleInv, UNCHANGED <<users, accountPipelines, accountUsed>>,
         accountRequests' \in [AccountRequests -> AccountRequest], RequestsMakeSense'
  PROVE  PeopleInv'
BY DEF PeopleInv, UsersTypeOK, People!Present, People!OwnersExist, People!NamesApart

LEMMA AuthenticatesKeeps ==
  ASSUME People!AccountsAssumption, PeopleInv, NEW r \in AccountRequests, People!Authenticates(r)
  PROVE  PeopleInv'
<1>1. PICK kind \in Kinds \ {"external"}, u \in accountUsed \cap Ids : \E ask \in People!AsksOf(kind) :
       LET q == People!NewRequest("refused", kind, u, ask[1], ask[2])
       IN accountRequests' = [accountRequests EXCEPT ![r] =
            IF users[u] # None /\ users[u].active
                 /\ (kind \in {"create", "update", "remove"} => users[u].super)
            THEN [q EXCEPT !.pc = "known", !.read = users[u],
                           !.target = IF kind \in {"rename", "leave", "pipeline"} THEN u ELSE @]
            ELSE q]
  BY DEF People!Authenticates
<1>2. PICK ask \in People!AsksOf(kind) :
       LET q == People!NewRequest("refused", kind, u, ask[1], ask[2])
       IN accountRequests' = [accountRequests EXCEPT ![r] =
            IF users[u] # None /\ users[u].active
                 /\ (kind \in {"create", "update", "remove"} => users[u].super)
            THEN [q EXCEPT !.pc = "known", !.read = users[u],
                           !.target = IF kind \in {"rename", "leave", "pipeline"} THEN u ELSE @]
            ELSE q]
  BY <1>1
<1>. DEFINE q == People!NewRequest("refused", kind, u, ask[1], ask[2])
            known == [q EXCEPT !.pc = "known", !.read = users[u],
                           !.target = IF kind \in {"rename", "leave", "pipeline"} THEN u ELSE @]
<1>3. /\ ask[1] \in Ids \cup {None} /\ ask[2] \in Change
      /\ kind = "create" => ask[2].name \in Names
      /\ kind \in {"update", "remove"} => ask[1] \in Ids
  BY AsksType
<1>4. q \in AccountRequest /\ MakesSense(q)
  BY <1>3 DEF People!NewRequest, AccountRequest, MakesSense
<1>5. users[u] \in Row \cup {None}
  BY DEF PeopleInv, UsersTypeOK
<1>6. known \in AccountRequest /\ MakesSense(known)
  BY <1>3, <1>5 DEF People!NewRequest, AccountRequest, MakesSense
<1>7. \E p \in AccountRequest : MakesSense(p) /\ accountRequests' = [accountRequests EXCEPT ![r] = p]
  BY <1>2, <1>4, <1>6
<1>8. QED
  BY <1>7, RequestMoves, OnlyRequests DEF PeopleInv, People!Authenticates

LEMMA ChecksKeep ==
  ASSUME PeopleInv, NEW r \in AccountRequests,
         People!ChecksCreate(r) \/ People!ChecksUpdate(r) \/ People!ChecksDelete(r)
  PROVE  PeopleInv'
<1>1. /\ accountRequests[r] \in AccountRequest /\ MakesSense(accountRequests[r])
      /\ users \in [Ids -> Row \cup {None}]
  BY DEF PeopleInv, UsersTypeOK, RequestsMakeSense
<1>2. CASE People!ChecksCreate(r) \/ People!ChecksDelete(r)
  <2>1. \E pc \in {"refused", "checked"} : People!Goes(r, pc)
    BY <1>2 DEF People!ChecksCreate, People!ChecksDelete
  <2>2. accountRequests[r].pc = "known" /\ UNCHANGED <<users, accountPipelines, accountUsed>>
    BY <1>2 DEF People!ChecksCreate, People!ChecksDelete, People!Is
  <2>3. QED
    BY <2>1, <2>2, RequestGoes, OnlyRequests DEF PeopleInv
<1>3. CASE People!ChecksUpdate(r)
  <2>. DEFINE q == accountRequests[r]
              row == IF q.target = q.user THEN q.read ELSE users[q.target]
  <2>1. /\ q.pc = "known" /\ q.kind \in {"rename", "update"}
        /\ \E pc \in {"refused", "checked"} :
             accountRequests' = [accountRequests EXCEPT ![r] = [q EXCEPT !.read = row, !.pc = pc]]
    BY <1>1, <1>3 DEF People!ChecksUpdate, People!Is, PeopleInv, UsersTypeOK
  <2>2. row \in Row \cup {None}
    BY <1>1, <2>1 DEF AccountRequest, MakesSense
  <2>3. \A pc \in {"refused", "checked"} :
          /\ [q EXCEPT !.read = row, !.pc = pc] \in AccountRequest
          /\ MakesSense([q EXCEPT !.read = row, !.pc = pc])
    BY <1>1, <2>1, <2>2 DEF AccountRequest, MakesSense
  <2>4. \E p \in AccountRequest : MakesSense(p) /\ accountRequests' = [accountRequests EXCEPT ![r] = p]
    BY <2>1, <2>3
  <2>5. QED
    BY <1>3, <2>4, RequestMoves, OnlyRequests DEF PeopleInv, People!ChecksUpdate
<1>4. QED
  BY <1>2, <1>3

LEMMA ExternalLoginKeeps ==
  ASSUME People!AccountsAssumption, PeopleInv, NEW r \in AccountRequests,
         People!ExternalLogin(r)
  PROVE  PeopleInv'
<1>. DEFINE c == [People!NoChange EXCEPT !.name = ExternalName]
            q == People!NewRequest("checked", "external", None, None, c)
<1>1. c \in Change /\ c.name \in Names
  BY DEF People!NoChange, People!Fields, Change, People!AccountsAssumption
<1>2. \E pc \in {"checked", "ok", "refused"} :
        accountRequests' = [accountRequests EXCEPT ![r] = [q EXCEPT !.pc = pc]]
  BY DEF People!ExternalLogin, People!NewRequest
<1>3. \A pc \in {"checked", "ok", "refused"} :
        [q EXCEPT !.pc = pc] \in AccountRequest /\ MakesSense([q EXCEPT !.pc = pc])
  BY <1>1 DEF People!NewRequest, AccountRequest, MakesSense
<1>4. \E p \in AccountRequest : MakesSense(p) /\ accountRequests' = [accountRequests EXCEPT ![r] = p]
  BY <1>2, <1>3
<1>5. QED
  BY <1>4, RequestMoves, OnlyRequests DEF PeopleInv, People!ExternalLogin

(* A row that is new, or whose name nobody else has.                       *)
LEMMA RowSet ==
  ASSUME People!AccountsAssumption, PeopleInv, NEW u \in Ids, NEW row \in Row,
         users' = [users EXCEPT ![u] = row], u \in accountUsed',  accountUsed \subseteq accountUsed',
         People!TakenByOther(row.name, u) => users[u] # None /\ row.name = users[u].name
  PROVE  /\ users' \in [Ids -> Row \cup {None}] /\ People!Present' \subseteq accountUsed'
         /\ People!Present' = People!Present \cup {u}
         /\ People!NamesApart'
<1>1. users' \in [Ids -> Row \cup {None}] /\ users'[u] = row /\ row # None
  BY RowsAreThere DEF PeopleInv, UsersTypeOK
<1>2. \A v \in Ids \ {u} : users'[v] = users[v]
  BY DEF PeopleInv, UsersTypeOK
<1>3. People!Present' = People!Present \cup {u}
  BY <1>1, <1>2 DEF People!Present
<1>4. ASSUME NEW v \in People!Present', v # u PROVE users'[v].name # row.name
  <2>1. v \in People!Present /\ users'[v] = users[v]
    BY <1>2, <1>3, <1>4 DEF People!Present
  <2>2. CASE users[v].name = row.name
    <3>1. People!TakenByOther(row.name, u)
      BY <1>4, <2>1, <2>2 DEF People!TakenByOther
    <3>2. u \in People!Present /\ users[u].name = users[v].name
      BY <2>2, <3>1 DEF People!Present
    <3>3. QED
      BY <1>4, <2>1, <3>2 DEF PeopleInv, People!NamesApart
  <2>3. QED
    BY <2>1, <2>2
<1>5. People!NamesApart'
  <2>1. ASSUME NEW v \in People!Present', NEW w \in People!Present', users'[v].name = users'[w].name
        PROVE  v = w
    <3>1. CASE v = u \/ w = u
      BY <1>1, <1>4, <2>1, <3>1
    <3>2. CASE v # u /\ w # u
      BY <1>2, <1>3, <2>1, <3>2 DEF PeopleInv, People!NamesApart, People!Present
    <3>3. QED
      BY <3>1, <3>2
  <2>2. QED
    BY <2>1 DEF People!NamesApart
<1>6. QED
  BY <1>1, <1>3, <1>5 DEF PeopleInv, UsersTypeOK

LEMMA InsertsKeeps ==
  ASSUME People!AccountsAssumption, PeopleInv, NEW r \in AccountRequests, People!Inserts(r)
  PROVE  PeopleInv'
<1>. DEFINE asked == accountRequests[r].change
<1>1. /\ accountRequests[r].pc = "checked" /\ asked \in Change /\ asked.name \in Names
      /\ accountRequests[r] \in AccountRequest
  BY DEF PeopleInv, UsersTypeOK, RequestsMakeSense, MakesSense, AccountRequest,
         People!Inserts, People!Is
<1>2. \E pc \in {"failed", "ok"} : People!Goes(r, pc)
  BY DEF People!Inserts
<1>3. accountRequests' \in [AccountRequests -> AccountRequest] /\ RequestsMakeSense'
  BY <1>2, RequestGoes DEF PeopleInv
<1>4. CASE People!Taken(asked.name)
  BY <1>3, <1>4, OnlyRequests DEF People!Inserts
<1>5. CASE ~People!Taken(asked.name)
  <2>1. PICK u \in Ids \ accountUsed :
          /\ users' = [users EXCEPT ![u] = People!User(asked.name, asked.super = TRUE)]
          /\ accountUsed' = accountUsed \cup {u}
    BY <1>5 DEF People!Inserts
  <2>. DEFINE row == People!User(asked.name, asked.super = TRUE)
  <2>2. row \in Row /\ row.name = asked.name
    BY <1>1 DEF People!User, Row
  <2>3. ~People!TakenByOther(asked.name, u)
    BY <1>5 DEF People!Taken, People!TakenByOther
  <2>4. /\ users' \in [Ids -> Row \cup {None}] /\ People!Present' \subseteq accountUsed'
        /\ People!Present' = People!Present \cup {u} /\ People!NamesApart'
    BY <2>1, <2>2, <2>3, RowSet
  <2>5. UNCHANGED accountPipelines
    BY DEF People!Inserts
  <2>6. QED
    BY <1>3, <2>4, <2>5 DEF PeopleInv, UsersTypeOK, People!OwnersExist
<1>6. QED
  BY <1>4, <1>5

LEMMA UpdatesKeeps ==
  ASSUME People!AccountsAssumption, PeopleInv, NEW r \in AccountRequests, People!Updates(r)
  PROVE  PeopleInv'
<1>. DEFINE q == accountRequests[r]
            u == q.target
            row == People!Changed(users[u], q.read, q.change)
<1>1. /\ q.pc = "checked" /\ q.kind \in {"rename", "update"} /\ q.change \in Change
      /\ u \in Ids
  BY DEF PeopleInv, UsersTypeOK, RequestsMakeSense, MakesSense, AccountRequest,
         People!Updates, People!Is
<1>2. \E pc \in {"failed", "ok"} : People!Goes(r, pc)
  BY DEF People!Updates
<1>3. accountRequests' \in [AccountRequests -> AccountRequest] /\ RequestsMakeSense'
  BY <1>1, <1>2, RequestGoes DEF PeopleInv
<1>4. CASE UNCHANGED users
  BY <1>3, <1>4, OnlyRequests DEF People!Updates
<1>5. CASE /\ users[u] # None
           /\ ~(q.change.name # q.read.name /\ People!TakenByOther(q.change.name, u))
           /\ users' = [users EXCEPT ![u] = row]
  <2>1. users[u] \in Row
    BY <1>1, <1>5 DEF PeopleInv, UsersTypeOK
  <2>2. /\ row \in Row
        /\ row.name # users[u].name => q.change.name = row.name /\ q.change.name # q.read.name
    BY <1>1, <2>1, ChangedIsRow
  <2>3. UNCHANGED <<accountPipelines, accountUsed>> /\ u \in accountUsed
    BY <1>1, <1>5 DEF People!Updates, PeopleInv, UsersTypeOK, People!Present
  <2>4. People!TakenByOther(row.name, u) => users[u] # None /\ row.name = users[u].name
    BY <1>5, <2>2
  <2>. HIDE DEF row
  <2>5. /\ users' \in [Ids -> Row \cup {None}] /\ People!Present' \subseteq accountUsed'
        /\ People!Present' = People!Present \cup {u} /\ People!NamesApart'
    BY <1>1, <1>5, <2>2, <2>3, <2>4, RowSet
  <2>6. QED
    BY <1>3, <2>3, <2>5 DEF PeopleInv, UsersTypeOK, People!OwnersExist
<1>6. QED
  BY <1>4, <1>5 DEF People!Updates

LEMMA DeletesKeeps ==
  ASSUME PeopleInv, NEW r \in AccountRequests, People!Deletes(r)
  PROVE  PeopleInv'
<1>. DEFINE u == accountRequests[r].target
<1>1. /\ accountPipelines' = [p \in Pipelines |-> IF accountPipelines[p] = u THEN None ELSE accountPipelines[p]]
      /\ users' = [users EXCEPT ![u] = None]
      /\ People!Goes(r, "ok") /\ UNCHANGED accountUsed
  BY DEF People!Deletes
<1>2. /\ users' \in [Ids -> Row \cup {None}]
      /\ accountPipelines' \in [Pipelines -> Ids \cup {None}]
      /\ People!Present' = People!Present \ {u}
      /\ \A v \in People!Present' : users'[v] = users[v]
  BY <1>1 DEF PeopleInv, UsersTypeOK, People!Present
<1>3. accountRequests' \in [AccountRequests -> AccountRequest] /\ RequestsMakeSense'
  BY <1>1, RequestGoes DEF PeopleInv
<1>4. People!NamesApart'
  BY <1>2 DEF PeopleInv, People!NamesApart
<1>5. People!OwnersExist'
  BY <1>1, <1>2 DEF PeopleInv, People!OwnersExist
<1>6. QED
  BY <1>1, <1>2, <1>3, <1>4, <1>5 DEF PeopleInv, UsersTypeOK

LEMMA CreatesPipelineKeeps ==
  ASSUME PeopleInv, NEW r \in AccountRequests, People!CreatesPipeline(r)
  PROVE  PeopleInv'
<1>. DEFINE u == accountRequests[r].user
<1>1. u \in Ids
  BY DEF PeopleInv, RequestsMakeSense, MakesSense, People!CreatesPipeline, People!Is
<1>2. \E pc \in {"failed", "ok"} : People!Goes(r, pc)
  BY DEF People!CreatesPipeline
<1>3. accountRequests' \in [AccountRequests -> AccountRequest] /\ RequestsMakeSense'
  BY <1>2, RequestGoes DEF PeopleInv
<1>4. CASE users[u] = None
  BY <1>3, <1>4, OnlyRequests DEF People!CreatesPipeline
<1>5. CASE users[u] # None
  <2>1. PICK p \in Pipelines : accountPipelines' = [accountPipelines EXCEPT ![p] = u] /\ accountUsed' = accountUsed \cup {p}
    BY <1>5 DEF People!CreatesPipeline
  <2>2. UNCHANGED users
    BY DEF People!CreatesPipeline
  <2>3. u \in People!Present
    BY <1>1, <1>5 DEF People!Present
  <2>4. QED
    BY <1>1, <1>3, <2>1, <2>2, <2>3
       DEF PeopleInv, UsersTypeOK, People!OwnersExist, People!NamesApart, People!Present
<1>6. QED
  BY <1>4, <1>5

LEMMA StartsKeeps ==
  ASSUME People!AccountsAssumption, PeopleInv, People!Starts
  PROVE  PeopleInv'
<1>1. PICK u \in Ids :
       /\ IF People!Taken(RootName)
            THEN u \in People!Present /\ users[u].name = RootName /\ UNCHANGED <<users, accountUsed>>
            ELSE /\ u \notin accountUsed
                 /\ users' = [users EXCEPT ![u] = People!User(RootName, TRUE)]
                 /\ accountUsed' = accountUsed \cup {u}
       /\ accountPipelines' = [accountPipelines EXCEPT ![Hello] = IF @ = None THEN u ELSE @]
  BY DEF People!Starts
<1>2. UNCHANGED accountRequests
  BY DEF People!Starts
<1>3. /\ users' \in [Ids -> Row \cup {None}] /\ People!Present' \subseteq accountUsed'
      /\ People!Present' = People!Present \cup {u} /\ People!NamesApart'
  <2>1. CASE People!Taken(RootName)
    BY <1>1, <2>1 DEF PeopleInv, UsersTypeOK, People!NamesApart, People!Present
  <2>2. CASE ~People!Taken(RootName)
    <3>1. People!User(RootName, TRUE) \in Row /\ People!User(RootName, TRUE).name = RootName
      BY DEF People!User, Row, People!AccountsAssumption
    <3>2. ~People!TakenByOther(RootName, u)
      BY <2>2 DEF People!Taken, People!TakenByOther
    <3>3. QED
      BY <1>1, <2>2, <3>1, <3>2, RowSet
  <2>3. QED
    BY <2>1, <2>2
<1>4. /\ accountPipelines' \in [Pipelines -> Ids \cup {None}]
      /\ \A p \in Pipelines : accountPipelines'[p] \in {accountPipelines[p], u}
  BY <1>1 DEF PeopleInv, UsersTypeOK
<1>5. QED
  BY <1>2, <1>3, <1>4 DEF PeopleInv, UsersTypeOK, RequestsMakeSense, People!OwnersExist

LEMMA PeopleInit == People!AccountsAssumption /\ People!Init => PeopleInv
<1>. SUFFICES ASSUME People!AccountsAssumption, People!Init PROVE PeopleInv
  OBVIOUS
<1>1. /\ People!User(RootName, TRUE) \in Row /\ People!User(MemberName, FALSE) \in Row
      /\ People!User(RootName, TRUE).name = RootName
      /\ People!User(MemberName, FALSE).name = MemberName
  BY DEF People!User, Row, People!AccountsAssumption
<1>2. People!Present = {Root, Member}
  BY <1>1, RowsAreThere DEF People!Present, People!Init, People!AccountsAssumption
<1>3. /\ users \in [Ids -> Row \cup {None}]
      /\ users[Root] = People!User(RootName, TRUE)
      /\ users[Member] = People!User(MemberName, FALSE)
  BY <1>1 DEF People!Init, People!AccountsAssumption
<1>4. People!NamesApart
  BY <1>1, <1>2, <1>3 DEF People!NamesApart, People!AccountsAssumption
<1>5. /\ accountPipelines \in [Pipelines -> Ids \cup {None}]
      /\ People!OwnersExist
  BY <1>2 DEF People!Init, People!AccountsAssumption, People!OwnersExist
<1>6. People!Present \subseteq accountUsed
  BY <1>2 DEF People!Init
<1>7. /\ accountRequests \in [AccountRequests -> AccountRequest]
      /\ RequestsMakeSense
  <2>1. People!NoChange \in Change
    BY DEF People!NoChange, People!Fields, Change
  <2>2. People!NewRequest("new", None, None, None, People!NoChange) \in AccountRequest
    BY <2>1 DEF People!NewRequest, AccountRequest
  <2>3. MakesSense(People!NewRequest("new", None, None, None, People!NoChange))
    BY DEF People!NewRequest, MakesSense
  <2>4. QED
    BY <2>2, <2>3 DEF People!Init, RequestsMakeSense
<1>8. QED
  BY <1>3, <1>4, <1>5, <1>6, <1>7 DEF PeopleInv, UsersTypeOK

LEMMA PeopleNext ==
  ASSUME People!AccountsAssumption, PeopleInv, [People!Next]_(People!vars)
  PROVE  PeopleInv'
<1>1. CASE UNCHANGED People!vars
  BY <1>1 DEF People!vars, PeopleInv, UsersTypeOK, RequestsMakeSense, People!Present,
              People!OwnersExist, People!NamesApart
<1>2. CASE People!Next
  BY <1>2, AuthenticatesKeeps, ChecksKeep, ExternalLoginKeeps, InsertsKeeps, UpdatesKeeps,
     DeletesKeeps, CreatesPipelineKeeps, StartsKeeps DEF People!Next, People!Serves
<1>3. QED
  BY <1>1, <1>2

(* Every pipeline has an owner, also one that is created while its owner   *)
(* is deleted, and no two users have one name, whatever requests for users,*)
(* names and pipelines interleave, logins from outside included.           *)
THEOREM UsersAreConsistent ==
  ASSUME People!AccountsAssumption
  PROVE  People!Spec => [](People!OwnersExist /\ People!NamesApart)
<1>1. PeopleInv => People!OwnersExist /\ People!NamesApart
  BY DEF PeopleInv
<1>2. QED
  BY <1>1, PeopleInit, PeopleNext, PTL DEF People!Spec

LEMMA PeopleChange ==
  ASSUME PeopleInv, [People!Next]_(People!vars)
  PROVE  People!ChangesAsAsked
<1>. SUFFICES ASSUME NEW u \in Ids, NEW f \in People!Fields,
                     users[u] # None, users'[u] # None, users'[u] # users[u]
              PROVE  \/ users'[u][f] = users[u][f]
                     \/ \E r \in AccountRequests :
                          /\ accountRequests[r].target = u
                          /\ accountRequests[r].change[f] = users'[u][f]
                          /\ accountRequests[r].pc # "ok" /\ accountRequests'[r].pc = "ok"
  BY DEF People!ChangesAsAsked
<1>1. u \in accountUsed /\ users[u] \in Row
  BY DEF PeopleInv, UsersTypeOK, People!Present
<1>2. PICK r \in AccountRequests : People!Updates(r)
  <2>1. ~UNCHANGED users
    OBVIOUS
  <2>2. ~People!Starts
    BY <1>1 DEF People!Starts, PeopleInv, UsersTypeOK
  <2>3. \A r \in AccountRequests : ~People!Inserts(r)
    BY <1>1 DEF People!Inserts, PeopleInv, UsersTypeOK
  <2>4. \A r \in AccountRequests : ~People!Deletes(r)
    BY DEF People!Deletes, PeopleInv, UsersTypeOK
  <2>5. QED
    BY <2>1, <2>2, <2>3, <2>4
       DEF People!Next, People!Serves, People!vars, People!Authenticates, People!ExternalLogin,
           People!ChecksCreate, People!ChecksUpdate, People!ChecksDelete, People!CreatesPipeline
<1>. DEFINE q == accountRequests[r]
<1>3. /\ q.pc = "checked" /\ q.change \in Change /\ q.target \in Ids /\ q \in AccountRequest
      /\ users' = [users EXCEPT ![q.target] = People!Changed(@, q.read, q.change)]
      /\ People!Goes(r, "ok")
  BY <1>2 DEF People!Updates, People!Is, PeopleInv, UsersTypeOK, RequestsMakeSense, MakesSense,
              AccountRequest
<1>4. u = q.target /\ users'[u] = People!Changed(users[u], q.read, q.change)
  BY <1>3 DEF PeopleInv, UsersTypeOK
<1>5. accountRequests'[r].pc = "ok"
  BY <1>3 DEF People!Goes, PeopleInv, UsersTypeOK
<1>6. users'[u][f] \in {users[u][f], q.change[f]}
  BY <1>1, <1>3, <1>4, ChangedIsRow
<1>7. QED
  BY <1>3, <1>4, <1>5, <1>6

(* Two requests do not undo each other's changes: a field of a user changes*)
(* only by a request that asked for that value and is answered so, although*)
(* each has read the user before others were committed.                    *)
THEOREM UsersChangeAsAsked ==
  ASSUME People!AccountsAssumption
  PROVE  People!Spec => People!ChangedAsAsked
<1>1. PeopleInv /\ [People!Next]_(People!vars) => [People!ChangesAsAsked]_(People!vars)
  BY PeopleChange
<1>2. QED
  BY <1>1, PeopleInit, PeopleNext, PTL DEF People!Spec, People!ChangedAsAsked
------------------------------------------------------------------------------
(* Requests for jobs.  The handlers of a request are under way until they  *)
(* end.                                                                    *)
UnderWay(t) == launcherTask[t] \in {"compute", "path", "submitting"}

JobsTypeOK ==
  /\ request \in [JobRequests -> {"none", "pending", "delivered", "acked", "termed", "missed"}]
  /\ launcherTask \in [Jobs!Tasks -> {"none", "compute", "path", "submitting", "ended"}]
  /\ job \in [Jobs!Tasks -> {"none", "queued", "running", "ended"}]
  /\ slow \in [JobRequests -> Nat]

(* The handlers of a request that are under way or have submitted a job: no*)
(* more than the times it came anew while one waited for the API account   *)
(* for.                                                                    *)
Busy(r) == {t \in Jobs!TasksOf(r) : UnderWay(t) \/ job[t] # "none"}
HandlersCounted ==
  /\ \A r \in JobRequests : Cardinality(Busy(r)) <= 1 + slow[r]
  /\ \A t \in Jobs!Tasks :
       /\ launcherTask[t] # "none" => request[t[1]] \notin {"none", "pending"}
       /\ job[t] # "none" => launcherTask[t] = "ended" /\ request[t[1]] # "delivered"

LEMMA TaskRequest == \A t \in Jobs!Tasks : t[1] \in JobRequests
BY DEF Jobs!Tasks

LEMMA TasksOfIt == \A r \in JobRequests : \A t \in Jobs!TasksOf(r) : t \in Jobs!Tasks /\ t[1] = r
BY DEF Jobs!TasksOf

LEMMA JobsStep ==
  ASSUME JobsTypeOK, Jobs!Next
  PROVE  JobsTypeOK'
<1>1. CASE \E r \in JobRequests : Jobs!Publishes(r)
  BY <1>1 DEF Jobs!bounded, Jobs!Publishes, JobsTypeOK
<1>2. ASSUME NEW r \in JobRequests, Jobs!Delivers(r) \/ Jobs!Redelivers(r) PROVE JobsTypeOK'
  <2>1. PICK t \in Jobs!TasksOf(r) : Jobs!Begins(t)
    BY <1>2 DEF Jobs!Delivers, Jobs!Redelivers
  <2>2. slow' \in [JobRequests -> Nat]
    BY <1>2 DEF Jobs!Delivers, Jobs!Redelivers, JobsTypeOK
  <2>3. QED
    BY <2>1, <2>2, TasksOfIt DEF Jobs!Begins, Jobs!GoesTo, JobsTypeOK
<1>3. ASSUME NEW t \in Jobs!Tasks, Jobs!ApiFails(t) \/ Jobs!Works(t) \/ Jobs!JobChanges(t) \/ Jobs!Monitors(t)
      PROVE  JobsTypeOK'
  <2>1. CASE Jobs!ApiFails(t) \/ Jobs!Proceeds(t)
    BY <2>1 DEF Jobs!bounded, Jobs!ApiFails, Jobs!Proceeds, Jobs!GoesTo, JobsTypeOK
  <2>2. CASE Jobs!GivesUp(t) \/ Jobs!Submits(t)
    BY <2>2, TaskRequest DEF Jobs!bounded, Jobs!GivesUp, Jobs!Submits, Jobs!Answers, Jobs!GoesTo, JobsTypeOK
  <2>3. CASE Jobs!JobChanges(t) \/ Jobs!Monitors(t)
    BY <2>3 DEF Jobs!bounded, Jobs!JobChanges, Jobs!Monitors, JobsTypeOK
  <2>4. QED
    BY <1>3, <2>1, <2>2, <2>3 DEF Jobs!Works
<1>4. CASE Jobs!LosesConsumer \/ Jobs!CreatesConsumer
  BY <1>4 DEF Jobs!bounded, Jobs!LosesConsumer, Jobs!CreatesConsumer, Jobs!Missed, JobsTypeOK
<1>5. QED
  BY <1>1, <1>2, <1>3, <1>4 DEF Jobs!Next

LEMMA TasksAreFew ==
  ASSUME Jobs!LauncherAssumption, NEW r \in JobRequests, NEW S, S \subseteq Jobs!TasksOf(r)
  PROVE  IsFiniteSet(S) /\ Cardinality(S) \in Nat
<1>1. MaxTasks \in Nat
  BY DEF Jobs!LauncherAssumption
<1>2. IsFiniteSet({r} \X (1..MaxTasks))
  <2>1. IsFiniteSet({r})
    BY FS_Singleton
  <2>2. IsFiniteSet(1..MaxTasks)
    BY <1>1, FS_Interval
  <2>3. QED
    BY <2>1, <2>2, FS_Product
<1>3. S \subseteq {r} \X (1..MaxTasks)
  BY DEF Jobs!TasksOf, Jobs!Tasks
<1>4. IsFiniteSet(S)
  BY <1>2, <1>3, FS_Subset
<1>5. QED
  BY <1>4, FS_CardinalityType

(* Steps after which no more handlers are busy.                            *)
LEMMA FewerBusy ==
  ASSUME Jobs!LauncherAssumption, JobsTypeOK, HandlersCounted, NEW r \in JobRequests,
         slow'[r] = slow[r], Busy(r)' \subseteq Busy(r)
  PROVE  Cardinality(Busy(r)') <= 1 + slow'[r]
<1>1. Busy(r) \subseteq Jobs!TasksOf(r)
  BY DEF Busy
<1>2. Cardinality(Busy(r)) <= 1 + slow[r] /\ slow[r] \in Nat
  BY DEF HandlersCounted, JobsTypeOK
<1>3. IsFiniteSet(Busy(r)) /\ Cardinality(Busy(r)) \in Nat
  BY <1>1, TasksAreFew
<1>4. IsFiniteSet(Busy(r)') /\ Cardinality(Busy(r)') <= Cardinality(Busy(r))
  BY <1>3, FS_Subset
<1>5. Cardinality(Busy(r)') \in Nat
  BY <1>4, FS_CardinalityType
<1>6. QED
  BY <1>2, <1>3, <1>4, <1>5

(* A handler more, when nobody was busy or the ack wait ended too early.   *)
LEMMA OneMoreBusy ==
  ASSUME Jobs!LauncherAssumption, JobsTypeOK, HandlersCounted, NEW r \in JobRequests, NEW t,
         Busy(r)' \subseteq Busy(r) \cup {t},
         slow'[r] \in Nat, slow'[r] = slow[r] => Busy(r) = {},
         slow'[r] # slow[r] => slow'[r] = slow[r] + 1
  PROVE  Cardinality(Busy(r)') <= 1 + slow'[r]
<1>1. Busy(r) \subseteq Jobs!TasksOf(r)
  BY DEF Busy
<1>2. Cardinality(Busy(r)) <= 1 + slow[r] /\ slow[r] \in Nat
  BY DEF HandlersCounted, JobsTypeOK
<1>3. IsFiniteSet(Busy(r)) /\ Cardinality(Busy(r)) \in Nat
  BY <1>1, TasksAreFew
<1>4. /\ IsFiniteSet(Busy(r) \cup {t})
      /\ Cardinality(Busy(r) \cup {t}) \in {Cardinality(Busy(r)), Cardinality(Busy(r)) + 1}
  BY <1>3, FS_AddElement
<1>5. IsFiniteSet(Busy(r)') /\ Cardinality(Busy(r)') <= Cardinality(Busy(r) \cup {t})
  BY <1>4, FS_Subset
<1>6. Cardinality(Busy(r)') \in Nat
  BY <1>5, FS_CardinalityType
<1>7. CASE slow'[r] = slow[r]
  <2>1. Cardinality(Busy(r)) = 0
    BY <1>7, FS_EmptySet
  <2>2. QED
    BY <1>2, <1>4, <1>5, <1>6, <1>7, <2>1
<1>8. CASE slow'[r] # slow[r]
  BY <1>2, <1>3, <1>4, <1>5, <1>6, <1>8
<1>9. QED
  BY <1>7, <1>8

LEMMA HandlerBegins ==
  ASSUME Jobs!LauncherAssumption, JobsTypeOK, HandlersCounted, NEW r \in JobRequests,
         Jobs!Delivers(r) \/ Jobs!Redelivers(r)
  PROVE  HandlersCounted'
<1>1. PICK t \in Jobs!TasksOf(r) : Jobs!Begins(t)
  BY DEF Jobs!Delivers, Jobs!Redelivers
<1>2. t \in Jobs!Tasks /\ t[1] = r
  BY TasksOfIt
<1>3. /\ launcherTask[t] = "none"
      /\ request' = [request EXCEPT ![r] = IF r \in Invalid THEN "termed" ELSE "delivered"]
      /\ launcherTask' = [launcherTask EXCEPT ![t] = IF r \in Invalid THEN "ended" ELSE "compute"]
      /\ UNCHANGED job
  BY <1>1, <1>2 DEF Jobs!Begins, Jobs!GoesTo
<1>4. \A q \in JobRequests : slow'[q] \in Nat /\ (q # r => slow'[q] = slow[q])
  BY DEF Jobs!Delivers, Jobs!Redelivers, JobsTypeOK
<1>5. request[r] \in {"pending", "delivered"}
  BY DEF Jobs!Delivers, Jobs!Redelivers
<1>6. \A u \in Jobs!TasksOf(r) : job[u] = "none"
  BY <1>5, TasksOfIt DEF HandlersCounted
<1>7. Busy(r)' \subseteq Busy(r) \cup {t}
  BY <1>2, <1>3, TasksOfIt DEF Busy, UnderWay, JobsTypeOK
<1>8. \A q \in JobRequests : q # r => Busy(q)' \subseteq Busy(q)
  BY <1>2, <1>3, TasksOfIt DEF Busy, UnderWay, JobsTypeOK
<1>9. slow'[r] = slow[r] => Busy(r) = {}
  <2>1. CASE Jobs!Delivers(r)
    BY <1>6, <2>1, TasksOfIt DEF Jobs!Delivers, HandlersCounted, Busy, UnderWay
  <2>2. CASE Jobs!Redelivers(r) /\ Jobs!Prepares(r)
    BY <2>2 DEF Jobs!Redelivers, JobsTypeOK
  <2>3. CASE Jobs!Redelivers(r) /\ ~Jobs!Prepares(r)
    BY <1>6, <2>3 DEF Jobs!Redelivers, Jobs!Prepares, Jobs!ReportsProgress, Busy, UnderWay
  <2>4. QED
    BY <2>1, <2>2, <2>3
<1>10. slow'[r] # slow[r] => slow'[r] = slow[r] + 1
  BY DEF Jobs!Delivers, Jobs!Redelivers, JobsTypeOK
<1>11. Cardinality(Busy(r)') <= 1 + slow'[r]
  BY <1>4, <1>7, <1>9, <1>10, OneMoreBusy
<1>12. \A q \in JobRequests : q # r => Cardinality(Busy(q)') <= 1 + slow'[q]
  BY <1>4, <1>8, FewerBusy
<1>13. ASSUME NEW v \in Jobs!Tasks
       PROVE  /\ launcherTask'[v] # "none" => request'[v[1]] \notin {"none", "pending"}
              /\ job'[v] # "none" => launcherTask'[v] = "ended" /\ request'[v[1]] # "delivered"
  <2>1. CASE v[1] = r
    <3>1. v \in Jobs!TasksOf(r)
      BY <2>1 DEF Jobs!TasksOf
    <3>2. QED
      BY <1>3, <1>6, <2>1, <3>1 DEF JobsTypeOK
  <2>2. CASE v[1] # r
    BY <1>2, <1>3, <2>2, TaskRequest DEF HandlersCounted, JobsTypeOK
  <2>3. QED
    BY <2>1, <2>2
<1>14. QED
  BY <1>11, <1>12, <1>13 DEF HandlersCounted

LEMMA HandlerWorks ==
  ASSUME Jobs!LauncherAssumption, JobsTypeOK, HandlersCounted, NEW t \in Jobs!Tasks,
         Jobs!ApiFails(t) \/ Jobs!Works(t) \/ Jobs!JobChanges(t) \/ Jobs!Monitors(t)
  PROVE  HandlersCounted'
<1>1. UNCHANGED slow
  BY DEF Jobs!ApiFails, Jobs!Works, Jobs!Proceeds, Jobs!GivesUp, Jobs!Submits, Jobs!JobChanges,
         Jobs!Monitors, Jobs!bounded
<1>2. SUFFICES /\ \A r \in JobRequests : Busy(r)' \subseteq Busy(r)
               /\ \A u \in Jobs!Tasks :
                    /\ launcherTask'[u] # "none" => request'[u[1]] \notin {"none", "pending"}
                    /\ job'[u] # "none" => launcherTask'[u] = "ended" /\ request'[u[1]] # "delivered"
  BY <1>1, FewerBusy DEF HandlersCounted
<1>3. CASE Jobs!ApiFails(t) \/ Jobs!Proceeds(t)
  <2>1. /\ UnderWay(t) /\ UNCHANGED <<request, job>>
        /\ \E pc \in {"path", "submitting", "ended"} : launcherTask' = [launcherTask EXCEPT ![t] = pc]
    BY <1>3 DEF Jobs!ApiFails, Jobs!Proceeds, Jobs!GoesTo, UnderWay
  <2>2. QED
    BY <2>1, TasksOfIt DEF HandlersCounted, UnderWay, Busy, JobsTypeOK
<1>4. CASE Jobs!GivesUp(t)
  <2>1. /\ UnderWay(t) /\ UNCHANGED job
        /\ launcherTask' = [launcherTask EXCEPT ![t] = "ended"]
        /\ request' = IF request[t[1]] = "delivered" THEN [request EXCEPT ![t[1]] = "termed"]
                      ELSE request
    BY <1>4 DEF Jobs!GivesUp, Jobs!Answers, Jobs!GoesTo, UnderWay
  <2>2. QED
    BY <2>1, TaskRequest, TasksOfIt DEF HandlersCounted, UnderWay, Busy, JobsTypeOK
<1>5. CASE Jobs!Submits(t)
  <2>1. /\ UnderWay(t) /\ job' = [job EXCEPT ![t] = "queued"]
        /\ launcherTask' = [launcherTask EXCEPT ![t] = "ended"]
        /\ request' = IF request[t[1]] = "delivered" THEN [request EXCEPT ![t[1]] = "acked"]
                      ELSE request
    BY <1>5 DEF Jobs!Submits, Jobs!Answers, Jobs!GoesTo, UnderWay
  <2>2. QED
    BY <2>1, TaskRequest, TasksOfIt DEF HandlersCounted, UnderWay, Busy, JobsTypeOK
<1>6. CASE Jobs!JobChanges(t) \/ Jobs!Monitors(t)
  <2>1. /\ UNCHANGED <<request, launcherTask>>
        /\ \/ UNCHANGED job
           \/ job[t] # "none" /\ \E s \in {"running", "ended"} : job' = [job EXCEPT ![t] = s]
    BY <1>6 DEF Jobs!JobChanges, Jobs!Monitors
  <2>2. QED
    BY <2>1, TasksOfIt DEF HandlersCounted, UnderWay, Busy, JobsTypeOK
<1>7. QED
  BY <1>3, <1>4, <1>5, <1>6 DEF Jobs!Works

LEMMA JobsInit ==
  ASSUME Jobs!LauncherAssumption, Jobs!Init
  PROVE  JobsTypeOK /\ HandlersCounted /\ Jobs!ForgottenForAReason
<1>1. JobsTypeOK /\ Jobs!ForgottenForAReason
  BY DEF Jobs!Init, JobsTypeOK, Jobs!ForgottenForAReason, Jobs!Tasks
<1>2. \A r \in JobRequests : Busy(r) = {}
  BY TasksOfIt DEF Jobs!Init, Busy, UnderWay
<1>3. \A r \in JobRequests : Cardinality(Busy(r)) <= 1 + slow[r]
  BY <1>1, <1>2, FS_EmptySet DEF JobsTypeOK
<1>4. QED
  BY <1>1, <1>3 DEF Jobs!Init, HandlersCounted

LEMMA HandlersNext ==
  ASSUME Jobs!LauncherAssumption, JobsTypeOK, HandlersCounted, [Jobs!Next]_(Jobs!vars)
  PROVE  HandlersCounted'
<1>1. CASE UNCHANGED Jobs!vars
  BY <1>1 DEF Jobs!vars, HandlersCounted, Busy, UnderWay
<1>2. CASE \E r \in JobRequests : Jobs!Publishes(r)
  <2>1. PICK q \in JobRequests : Jobs!Publishes(q)
    BY <1>2
  <2>2. /\ UNCHANGED <<launcherTask, job, slow>> /\ request[q] = "none"
        /\ request' = [request EXCEPT ![q] = request'[q]] /\ request'[q] \in {"pending", "missed"}
    BY <2>1 DEF Jobs!Publishes, Jobs!bounded, JobsTypeOK
  <2>3. \A t \in Jobs!Tasks : launcherTask[t] # "none" => t[1] # q
    BY <2>2 DEF HandlersCounted
  <2>4. QED
    BY <2>2, <2>3, TaskRequest DEF HandlersCounted, Busy, UnderWay, JobsTypeOK
<1>3. CASE Jobs!LosesConsumer
  <2>1. UNCHANGED <<job, slow>>
    BY <1>3 DEF Jobs!LosesConsumer
  <2>2. \A r \in JobRequests :
          request'[r] = IF request[r] \in {"pending", "delivered"} THEN "missed" ELSE request[r]
    BY <1>3 DEF Jobs!LosesConsumer, Jobs!Missed
  <2>3. \A t \in Jobs!Tasks :
          \/ launcherTask'[t] = launcherTask[t]
          \/ launcherTask[t] # "none" /\ launcherTask'[t] = "ended"
    BY <1>3 DEF Jobs!LosesConsumer, JobsTypeOK
  <2>4. \A r \in JobRequests : Busy(r)' \subseteq Busy(r)
    BY <2>1, <2>3, TasksOfIt DEF Busy, UnderWay
  <2>5. \A r \in JobRequests : Cardinality(Busy(r)') <= 1 + slow'[r]
    BY <2>1, <2>4, FewerBusy
  <2>6. QED
    BY <2>1, <2>2, <2>3, <2>5, TaskRequest DEF HandlersCounted
<1>4. CASE Jobs!CreatesConsumer
  BY <1>4 DEF Jobs!CreatesConsumer, Jobs!bounded, HandlersCounted, Busy, UnderWay
<1>5. QED
  BY <1>1, <1>2, <1>3, <1>4, HandlerBegins, HandlerWorks DEF Jobs!Next

LEMMA ForgottenNext ==
  ASSUME JobsTypeOK, Jobs!ForgottenForAReason, [Jobs!Next]_(Jobs!vars)
  PROVE  Jobs!ForgottenForAReason'
<1>. SUFFICES ASSUME NEW r \in JobRequests
              PROVE  /\ request'[r] = "acked" => \E t \in Jobs!TasksOf(r) : job'[t] # "none"
                     /\ request'[r] = "termed" => r \in Invalid \cup launcherErrors'
  BY DEF Jobs!ForgottenForAReason, Jobs!JobsOf, Jobs!TasksOf
<1>1. /\ request[r] = "acked" => \E t \in Jobs!TasksOf(r) : job[t] # "none"
      /\ request[r] = "termed" => r \in Invalid \cup launcherErrors
  BY DEF Jobs!ForgottenForAReason, Jobs!JobsOf
<1>2. /\ \A t \in Jobs!TasksOf(r) : job[t] # "none" => job'[t] # "none"
      /\ launcherErrors \subseteq launcherErrors'
  <2>1. CASE \E t \in Jobs!Tasks : Jobs!Submits(t) \/ Jobs!JobChanges(t)
    BY <2>1, TasksOfIt DEF Jobs!Submits, Jobs!JobChanges, JobsTypeOK
  <2>2. CASE \E t \in Jobs!Tasks : Jobs!GivesUp(t)
    BY <2>2 DEF Jobs!GivesUp
  <2>3. CASE UNCHANGED <<job, launcherErrors>>
    BY <2>3
  <2>4. QED
    BY <2>1, <2>2, <2>3
       DEF Jobs!Next, Jobs!vars, Jobs!Publishes, Jobs!Delivers, Jobs!Redelivers, Jobs!Begins,
           Jobs!ApiFails, Jobs!Works, Jobs!Proceeds, Jobs!Monitors, Jobs!LosesConsumer,
           Jobs!CreatesConsumer
<1>3. CASE \E q \in JobRequests : Jobs!Publishes(q)
  BY <1>1, <1>2, <1>3 DEF Jobs!Publishes, JobsTypeOK
<1>4. CASE \E q \in JobRequests : \E t \in Jobs!TasksOf(q) : Jobs!Begins(t)
  BY <1>1, <1>2, <1>4, TasksOfIt DEF Jobs!Begins, JobsTypeOK
<1>5. CASE \E t \in Jobs!Tasks : Jobs!GivesUp(t)
  BY <1>1, <1>2, <1>5, TaskRequest DEF Jobs!GivesUp, Jobs!Answers, JobsTypeOK
<1>6. CASE \E t \in Jobs!Tasks : Jobs!Submits(t)
  <2>1. PICK t \in Jobs!Tasks : Jobs!Submits(t)
    BY <1>6
  <2>2. job'[t] # "none" /\ t \in Jobs!TasksOf(t[1])
    BY <2>1 DEF Jobs!Submits, JobsTypeOK, Jobs!TasksOf
  <2>3. QED
    BY <1>1, <1>2, <2>1, <2>2, TaskRequest DEF Jobs!Submits, Jobs!Answers, JobsTypeOK
<1>7. CASE Jobs!LosesConsumer
  BY <1>1, <1>2, <1>7 DEF Jobs!LosesConsumer, Jobs!Missed
<1>8. CASE UNCHANGED request
  BY <1>1, <1>2, <1>8
<1>9. QED
  BY <1>3, <1>4, <1>5, <1>6, <1>7, <1>8
     DEF Jobs!Next, Jobs!vars, Jobs!Delivers, Jobs!Redelivers, Jobs!ApiFails, Jobs!Works, Jobs!Proceeds,
         Jobs!JobChanges, Jobs!Monitors, Jobs!CreatesConsumer

LEMMA HandlersCountedSuffices ==
  ASSUME Jobs!LauncherAssumption, JobsTypeOK, HandlersCounted
  PROVE  Jobs!OneJobEach
<1>. SUFFICES ASSUME NEW r \in JobRequests PROVE Cardinality(Jobs!JobsOf(r)) <= 1 + slow[r]
  BY Zenon DEF Jobs!OneJobEach, Jobs!Cardinality, Cardinality
<1>1. Jobs!JobsOf(r) \subseteq Busy(r) /\ Busy(r) \subseteq Jobs!TasksOf(r)
  BY DEF Jobs!JobsOf, Busy
<1>2. IsFiniteSet(Busy(r)) /\ Cardinality(Busy(r)) \in Nat
  BY <1>1, TasksAreFew
<1>3. IsFiniteSet(Jobs!JobsOf(r)) /\ Cardinality(Jobs!JobsOf(r)) <= Cardinality(Busy(r))
  BY <1>1, <1>2, FS_Subset
<1>4. Cardinality(Jobs!JobsOf(r)) \in Nat
  BY <1>3, FS_CardinalityType
<1>5. Cardinality(Busy(r)) <= 1 + slow[r] /\ slow[r] \in Nat
  BY DEF HandlersCounted, JobsTypeOK
<1>6. QED
  BY <1>2, <1>3, <1>4, <1>5

(* A request starts no more jobs than one, and one for each time that its  *)
(* ack wait ended while a handler waited for the API: no other delivery, of*)
(* as many as there are after handlers that died, starts another, nor does *)
(* one that comes while the job is being submitted.                        *)
THEOREM RequestsStartOneJob ==
  ASSUME Jobs!LauncherAssumption
  PROVE  Jobs!Spec => []Jobs!OneJobEach
<1>1. JobsTypeOK /\ UNCHANGED Jobs!vars => JobsTypeOK'
  BY DEF JobsTypeOK, Jobs!vars
<1>2. QED
  BY <1>1, HandlersCountedSuffices, JobsInit, JobsStep, HandlersNext, PTL DEF Jobs!Spec

(* The server forgets a request only when a job was submitted for it, users*)
(* were told why not, or it made no sense: also when handlers are slow, the*)
(* API fails and the request is delivered to several of them.              *)
THEOREM RequestsAreForgottenForAReason ==
  ASSUME Jobs!LauncherAssumption
  PROVE  Jobs!Spec => []Jobs!ForgottenForAReason
<1>1. JobsTypeOK /\ UNCHANGED Jobs!vars => JobsTypeOK'
  BY DEF JobsTypeOK, Jobs!vars
<1>2. QED
  BY <1>1, JobsInit, JobsStep, ForgottenNext, PTL DEF Jobs!Spec

------------------------------------------------------------------------------
(* The sockets of a messenger.  An input is connected just at the address  *)
(* of the map, and connected_to says so.                                   *)
SocketsInv ==
  /\ Sockets!TypeOK
  /\ \A u \in Upstreams : messengerUpdates[u] # <<>> => u \in watched
  /\ Sockets!OneAddressEach
  /\ stage # "stopped" => \A u \in Upstreams : connectedTo[u] > 0 <=> addressMap[u] # 0

LEMMA SocketsInit == Sockets!MessengerAssumption /\ Sockets!Init => SocketsInv
BY DEF SocketsInv, Sockets!MessengerAssumption, Sockets!Init, Sockets!TypeOK, Sockets!Addresses, Sockets!NoUpdate,
       Sockets!Unknown, Sockets!OneAddressEach

LEMMA PutType ==
  ASSUME SocketsInv, NEW u \in Upstreams, NEW a \in Sockets!Addresses, Sockets!Put(u, a)
  PROVE  /\ published' \in [Upstreams -> Sockets!Addresses]
         /\ messengerUpdates' \in [Upstreams -> Seq(Sockets!Addresses)]
         /\ \A v \in Upstreams : messengerUpdates'[v] # <<>> => v \in watched
BY DEF SocketsInv, Sockets!TypeOK, Sockets!Put

(* Each output port publishes as many addresses as it has starts.          *)
LEMMA UpstreamKeeps ==
  ASSUME Sockets!MessengerAssumption, SocketsInv, NEW u \in Upstreams,
         Sockets!SetupOutputs(u) \/ Sockets!Republishes(u) \/ Sockets!Ends(u)
  PROVE  SocketsInv'
<1>1. messengerStarts' \in [Upstreams -> Sockets!Addresses]
  <2>1. CASE Sockets!SetupOutputs(u)
    BY <2>1 DEF Sockets!MessengerAssumption, SocketsInv, Sockets!TypeOK, Sockets!SetupOutputs,
                Sockets!Addresses
  <2>2. CASE UNCHANGED messengerStarts
    BY <2>2 DEF SocketsInv, Sockets!TypeOK
  <2>3. QED
    BY <2>1, <2>2 DEF Sockets!Republishes, Sockets!Ends
<1>2. PICK a \in Sockets!Addresses : Sockets!Put(u, a)
  BY DEF Sockets!MessengerAssumption, SocketsInv, Sockets!TypeOK, Sockets!SetupOutputs, Sockets!Republishes,
         Sockets!Ends, Sockets!Addresses
<1>3. UNCHANGED <<stage, addressMap, connections, connectedTo, watched, state, msg>>
  BY DEF Sockets!SetupOutputs, Sockets!Republishes, Sockets!Ends, Sockets!socketVars
<1>4. Sockets!OneAddressEach'
  BY <1>3 DEF SocketsInv, Sockets!OneAddressEach
<1>5. QED
  BY <1>1, <1>2, <1>3, <1>4, PutType DEF SocketsInv, Sockets!TypeOK

LEMMA SetupKeeps ==
  ASSUME SocketsInv, NEW u \in Upstreams, Sockets!SetupInput(u) \/ Sockets!Watch(u)
  PROVE  SocketsInv'
<1>1. CASE Sockets!SetupInput(u)
  <2>1. stage = "setup" /\ stage' = "setup" /\ published[u] # 0 /\ addressMap[u] = 0
    BY <1>1 DEF Sockets!SetupInput
  <2>2. /\ addressMap' = [addressMap EXCEPT ![u] = published[u]]
        /\ addressMap' \in [Upstreams -> Sockets!Addresses]
    BY <1>1 DEF Sockets!SetupInput, SocketsInv, Sockets!TypeOK
  <2>3. \A v \in Upstreams : \A a \in Sockets!Addresses :
          /\ connections[v][a] \in Nat
          /\ connections'[v][a] = connections[v][a]
               + (IF a # 0 /\ a = addressMap'[v] THEN 1 ELSE 0)
    BY <1>1 DEF Sockets!SetupInput, Sockets!One, SocketsInv, Sockets!TypeOK
  <2>4. \A v \in Upstreams :
          /\ connectedTo[v] \in Nat
          /\ connectedTo'[v] = connectedTo[v] + (IF addressMap'[v] # 0 THEN 1 ELSE 0)
    BY <1>1 DEF Sockets!SetupInput, Sockets!One, SocketsInv, Sockets!TypeOK
  <2>5. /\ connections' \in [Upstreams -> [Sockets!Addresses -> Nat]]
        /\ connectedTo' \in [Upstreams -> Nat]
    <3>1. \A v \in Upstreams : \A a \in Sockets!Addresses : connections'[v][a] \in Nat
      BY <2>3
    <3>2. \A v \in Upstreams : connectedTo'[v] \in Nat
      BY <2>4
    <3>3. /\ connections' = [v \in Upstreams |-> [a \in Sockets!Addresses |-> connections'[v][a]]]
          /\ connectedTo' = [v \in Upstreams |-> connectedTo'[v]]
      BY <1>1 DEF Sockets!SetupInput
    <3>4. QED
      BY <3>1, <3>2, <3>3
  <2>6. \A v \in Upstreams : \A a \in Sockets!Addresses :
          (connections[v][a] > 0) <=> (a # 0 /\ a = addressMap[v])
    BY <2>1 DEF SocketsInv, Sockets!OneAddressEach
  <2>7. \A v \in Upstreams : \A a \in Sockets!Addresses :
          (connections'[v][a] > 0) <=> (a # 0 /\ a = addressMap'[v])
    <3>1. TAKE v \in Upstreams
    <3>2. CASE v = u
      <4>1. \A a \in Sockets!Addresses : connections[v][a] = 0
        BY <2>1, <2>3, <2>6, <3>2
      <4>2. QED
        BY <2>3, <4>1
    <3>3. CASE v # u
      <4>1. addressMap'[v] = addressMap[v]
        BY <2>2, <3>3
      <4>2. QED
        BY <2>3, <2>6, <4>1
    <3>4. QED
      BY <3>2, <3>3
  <2>8. \A v \in Upstreams : connectedTo'[v] > 0 <=> addressMap'[v] # 0
    <3>1. TAKE v \in Upstreams
    <3>2. connectedTo[v] > 0 <=> addressMap[v] # 0
      BY <2>1 DEF SocketsInv
    <3>3. addressMap[v] # 0 => addressMap'[v] # 0
      BY <2>1, <2>2 DEF SocketsInv, Sockets!TypeOK
    <3>4. QED
      BY <2>4, <3>2, <3>3
  <2>9. UNCHANGED <<messengerStarts, published, stage, watched, messengerUpdates, state, msg>>
    BY <1>1 DEF Sockets!SetupInput, Sockets!keyVars, Sockets!watchVars
  <2>10. Sockets!TypeOK' /\ \A v \in Upstreams : messengerUpdates'[v] # <<>> => v \in watched'
    BY <2>2, <2>5, <2>9 DEF SocketsInv, Sockets!TypeOK
  <2>11. Sockets!OneAddressEach'
    BY <2>1, <2>7 DEF Sockets!OneAddressEach
  <2>12. QED
    BY <2>8, <2>10, <2>11 DEF SocketsInv
<1>2. CASE Sockets!Watch(u)
  <2>1. stage # "stopped" /\ stage' # "stopped"
    BY <1>2 DEF Sockets!Watch
  <2>2. UNCHANGED <<addressMap, connections, connectedTo>>
    BY <1>2 DEF Sockets!Watch, Sockets!socketVars
  <2>3. Sockets!OneAddressEach' /\ \A v \in Upstreams : connectedTo'[v] > 0 <=> addressMap'[v] # 0
    BY <2>1, <2>2 DEF SocketsInv, Sockets!OneAddressEach
  <2>4. Sockets!TypeOK /\ \A v \in Upstreams : messengerUpdates[v] # <<>> => v \in watched
    BY DEF SocketsInv
  <2>5. (IF published[u] = 0 THEN <<>> ELSE <<published[u]>>) \in Seq(Sockets!Addresses)
    BY <2>4 DEF Sockets!TypeOK
  <2>6. /\ messengerUpdates' \in [Upstreams -> Seq(Sockets!Addresses)]
        /\ \A v \in Upstreams : messengerUpdates'[v] # <<>> => v \in watched'
    BY <1>2, <2>4, <2>5 DEF Sockets!TypeOK, Sockets!Watch
  <2>7. /\ watched' \subseteq Upstreams /\ watched \subseteq watched'
        /\ stage' \in {"setup", "watching", "failed", "stopped"}
    BY <1>2, <2>4 DEF Sockets!TypeOK, Sockets!Watch
  <2>8. UNCHANGED <<messengerStarts, published, addressMap, connections, connectedTo, state, msg>>
    BY <1>2, <2>2 DEF Sockets!Watch, Sockets!keyVars
  <2>9. Sockets!TypeOK'
    BY <2>4, <2>6, <2>7, <2>8 DEF Sockets!TypeOK
  <2>10. QED
    BY <2>3, <2>6, <2>9 DEF SocketsInv
<1>3. QED
  BY <1>1, <1>2

(* A reconnect closes all connections to the address it leaves: the entry  *)
(* of connected_to, on which that depends, is there.                       *)
LEMMA HandlesKeeps ==
  ASSUME SocketsInv, stage # "stopped", stage' = stage,
         NEW u \in Upstreams, NEW a \in Sockets!Addresses, Sockets!Handles(u, a)
  PROVE  /\ addressMap' \in [Upstreams -> Sockets!Addresses]
         /\ connections' \in [Upstreams -> [Sockets!Addresses -> Nat]]
         /\ connectedTo' \in [Upstreams -> Nat]
         /\ state' \in [Upstreams -> Sockets!Addresses \cup {Sockets!Unknown}]
         /\ Sockets!OneAddressEach'
         /\ \A v \in Upstreams : connectedTo'[v] > 0 <=> addressMap'[v] # 0
<1>1. /\ addressMap \in [Upstreams -> Sockets!Addresses]
      /\ connections \in [Upstreams -> [Sockets!Addresses -> Nat]]
      /\ connectedTo \in [Upstreams -> Nat]
      /\ state \in [Upstreams -> Sockets!Addresses \cup {Sockets!Unknown}]
  BY DEF SocketsInv, Sockets!TypeOK
<1>2. \A v \in Upstreams : \A b \in Sockets!Addresses :
        (connections[v][b] > 0) <=> (b # 0 /\ b = addressMap[v])
  BY DEF SocketsInv, Sockets!OneAddressEach
<1>3. \A v \in Upstreams : connectedTo[v] > 0 <=> addressMap[v] # 0
  BY DEF SocketsInv
<1>4. CASE UNCHANGED Sockets!socketVars
  BY <1>1, <1>2, <1>3, <1>4
     DEF Sockets!socketVars, Sockets!Handles, Sockets!Removed, Sockets!OneAddressEach
<1>5. CASE Sockets!Reconnect(u, a) /\ a # 0 /\ state' = [state EXCEPT ![u] = a]
  <2>1. /\ addressMap' = [addressMap EXCEPT ![u] = a]
        /\ connectedTo' = [connectedTo EXCEPT ![u] = IF @ = 0 THEN 1 ELSE @]
    BY <1>5 DEF Sockets!Reconnect
  <2>2. /\ Sockets!Disconnected(u) \in [Sockets!Addresses -> Nat]
        /\ \A b \in Sockets!Addresses : Sockets!Disconnected(u)[b] = 0
    <3>1. CASE connectedTo[u] = 0
      BY <1>1, <1>2, <1>3, <3>1 DEF Sockets!Disconnected
    <3>2. CASE connectedTo[u] # 0
      BY <1>1, <1>2, <3>2 DEF Sockets!Disconnected
    <3>3. QED
      BY <3>1, <3>2
  <2>3. /\ connections' \in [Upstreams -> [Sockets!Addresses -> Nat]]
        /\ \A v \in Upstreams : v # u => connections'[v] = connections[v]
        /\ \A b \in Sockets!Addresses : connections'[u][b] = IF b = a THEN 1 ELSE 0
    BY <1>1, <1>5, <2>2 DEF Sockets!Reconnect
  <2>4. \A v \in Upstreams : \A b \in Sockets!Addresses :
          (connections'[v][b] > 0) <=> (b # 0 /\ b = addressMap'[v])
    <3>1. TAKE v \in Upstreams
    <3>2. CASE v = u
      BY <1>1, <1>5, <2>1, <2>3, <3>2
    <3>3. CASE v # u
      BY <1>1, <1>2, <2>1, <2>3, <3>3
    <3>4. QED
      BY <3>2, <3>3
  <2>5. Sockets!OneAddressEach'
    BY <2>4 DEF Sockets!OneAddressEach
  <2>6. \A v \in Upstreams : connectedTo'[v] \in Nat /\ (connectedTo'[v] > 0 <=> addressMap'[v] # 0)
    BY <1>1, <1>3, <1>5, <2>1
  <2>7. addressMap' \in [Upstreams -> Sockets!Addresses] /\ connectedTo' \in [Upstreams -> Nat]
    BY <1>1, <2>1
  <2>8. state' \in [Upstreams -> Sockets!Addresses \cup {Sockets!Unknown}]
    BY <1>1, <1>5
  <2>9. QED
    BY <2>3, <2>5, <2>6, <2>7, <2>8
<1>6. QED
  BY <1>4, <1>5 DEF Sockets!Handles, Sockets!Removed, Sockets!socketVars

LEMMA SocketsNext ==
  ASSUME Sockets!MessengerAssumption, SocketsInv, [Sockets!Next]_(Sockets!vars)
  PROVE  SocketsInv'
<1>1. CASE UNCHANGED Sockets!vars
  BY <1>1 DEF Sockets!vars, SocketsInv, Sockets!TypeOK, Sockets!OneAddressEach
<1>2. ASSUME NEW u \in Upstreams, Sockets!HandleUpdate(u) PROVE SocketsInv'
  <2>0. /\ messengerUpdates[u] # <<>>
        /\ messengerUpdates' = [messengerUpdates EXCEPT ![u] = Tail(@)]
        /\ messengerUpdates \in [Upstreams -> Seq(Sockets!Addresses)]
        /\ \A v \in Upstreams : messengerUpdates[v] # <<>> => v \in watched
    BY <1>2 DEF Sockets!HandleUpdate, SocketsInv, Sockets!TypeOK
  <2>1. PICK a \in Sockets!Addresses : a = Head(messengerUpdates[u])
    BY <2>0, HeadTailProperties, EmptySeq
  <2>2. /\ messengerUpdates' \in [Upstreams -> Seq(Sockets!Addresses)]
        /\ \A v \in Upstreams : messengerUpdates'[v] # <<>> => v \in watched
    <3>1. Tail(messengerUpdates[u]) \in Seq(Sockets!Addresses)
      BY <2>0, HeadTailProperties, EmptySeq
    <3>2. QED
      BY <2>0, <3>1
  <2>3. stage # "stopped" /\ stage' = stage /\ Sockets!Handles(u, a)
    BY <1>2, <2>1 DEF Sockets!HandleUpdate
  <2>4. /\ addressMap' \in [Upstreams -> Sockets!Addresses]
        /\ connections' \in [Upstreams -> [Sockets!Addresses -> Nat]]
        /\ connectedTo' \in [Upstreams -> Nat]
        /\ state' \in [Upstreams -> Sockets!Addresses \cup {Sockets!Unknown}]
        /\ Sockets!OneAddressEach'
        /\ \A v \in Upstreams : connectedTo'[v] > 0 <=> addressMap'[v] # 0
    BY <2>3, HandlesKeeps
  <2>5. QED
    BY <1>2, <2>1, <2>2, <2>4 DEF Sockets!HandleUpdate, SocketsInv, Sockets!TypeOK, Sockets!keyVars
<1>3. ASSUME NEW u \in Upstreams, Sockets!HandleTimeout(u) PROVE SocketsInv'
  <2>1. /\ msg.up \in Upstreams /\ msg.val \in Sockets!Addresses
        /\ stage # "stopped" /\ stage' = stage /\ Sockets!Handles(msg.up, msg.val)
    BY <1>3 DEF Sockets!HandleTimeout, SocketsInv, Sockets!TypeOK
  <2>2. /\ addressMap' \in [Upstreams -> Sockets!Addresses]
        /\ connections' \in [Upstreams -> [Sockets!Addresses -> Nat]]
        /\ connectedTo' \in [Upstreams -> Nat]
        /\ state' \in [Upstreams -> Sockets!Addresses \cup {Sockets!Unknown}]
        /\ Sockets!OneAddressEach'
        /\ \A v \in Upstreams : connectedTo'[v] > 0 <=> addressMap'[v] # 0
    BY <2>1, HandlesKeeps
  <2>3. QED
    BY <1>3, <2>2 DEF Sockets!HandleTimeout, SocketsInv, Sockets!TypeOK, Sockets!keyVars
<1>4. CASE Sockets!StartTimesOut
  BY <1>4 DEF Sockets!StartTimesOut, Sockets!keyVars, Sockets!socketVars,
              Sockets!watchVars, SocketsInv, Sockets!TypeOK, Sockets!OneAddressEach
<1>5. CASE Sockets!Stop
  BY <1>5 DEF Sockets!Stop, Sockets!keyVars, Sockets!watchVars, SocketsInv, Sockets!TypeOK,
              Sockets!OneAddressEach
<1>6. QED
  BY <1>1, <1>2, <1>3, <1>4, <1>5, UpstreamKeeps, SetupKeeps DEF Sockets!Next, Sockets!Steps

(* Until it stops, an input is connected at the address it has for each    *)
(* upstream port, and at no address that was left: when the upstream moves,*)
(* during the setup, which connects it again and again, while it is watched*)
(* or while an update is handled again after a timeout.                    *)
THEOREM InputsHaveOneAddress ==
  ASSUME Sockets!MessengerAssumption
  PROVE  Sockets!Spec => [](Sockets!TypeOK /\ Sockets!OneAddressEach)
<1>1. SocketsInv => Sockets!TypeOK /\ Sockets!OneAddressEach
  BY DEF SocketsInv
<1>2. QED
  BY <1>1, SocketsInit, SocketsNext, PTL DEF Sockets!Spec

------------------------------------------------------------------------------
(* The catalogue of operators.                                             *)
Versions == [Images -> Nat]
Listing == [Images -> [kind : {"none", "file", "image"}, version : Nat]]
Refresh ==
  [pc : {"new", "list", "fetch", "answered", "failed"}, worker : Workers \cup {None},
   refresh : BOOLEAN, files : Versions, asked : Versions, floor : Versions,
   left : SUBSET Images, got : Versions, skipped : SUBSET Images, answer : Listing \cup {None}]

CatalogueTypes ==
  /\ registry \in Versions /\ local \in Versions /\ catalogueShown \in Versions
  /\ cache \in [Workers -> Listing \cup {None}]
  /\ catalogueRequests \in [CatalogueRequests -> Refresh]

(* What a request asked for it has yet to fetch, has fetched or skipped.   *)
Fetched(q) ==
  /\ q.pc = "list" => \A i \in Images : q.asked[i] <= registry[i]
  /\ q.pc = "fetch" => \A i \in Images :
       /\ q.asked[i] <= registry[i]
       /\ q.asked[i] > 0 /\ i \notin q.left \cup q.skipped => q.got[i] >= q.asked[i]

Fresh(q) ==
  q.pc = "answered" /\ q.refresh => \A i \in Images :
    IF q.files[i] > 0 THEN q.answer[i] = Catalogue!Entry("file", q.files[i])
    ELSE q.asked[i] > 0 /\ i \notin q.skipped =>
           q.answer[i].kind = "image" /\ q.answer[i].version >= q.asked[i]

CatalogueInv ==
  /\ CatalogueTypes
  /\ \A r \in CatalogueRequests : Fetched(catalogueRequests[r]) /\ Fresh(catalogueRequests[r])

LEMMA RefreshMoves ==
  ASSUME CatalogueInv, NEW r \in CatalogueRequests, NEW q \in Refresh, Fetched(q), Fresh(q),
         catalogueRequests' = [catalogueRequests EXCEPT ![r] = q],
         UNCHANGED <<registry, local>>, catalogueShown' \in Versions,
         cache' \in [Workers -> Listing \cup {None}]
  PROVE  CatalogueInv'
<1>1. catalogueRequests' \in [CatalogueRequests -> Refresh]
  BY DEF CatalogueInv, CatalogueTypes
<1>2. ASSUME NEW s \in CatalogueRequests
      PROVE  Fetched(catalogueRequests[s])' /\ Fresh(catalogueRequests[s])'
  <2>1. catalogueRequests'[s] = IF s = r THEN q ELSE catalogueRequests[s]
    BY DEF CatalogueInv, CatalogueTypes
  <2>2. Fetched(catalogueRequests'[s]) /\ Fresh(catalogueRequests'[s])
    BY <2>1 DEF CatalogueInv
  <2>3. QED
    BY <2>2 DEF Fetched, Fresh
<1>3. QED
  BY <1>1, <1>2 DEF CatalogueInv, CatalogueTypes

LEMMA MergedType ==
  ASSUME NEW files \in Versions, NEW got \in Versions
  PROVE  /\ Catalogue!Merged(files, got) \in Listing
         /\ \A i \in Images : Catalogue!Merged(files, got)[i] =
              IF files[i] > 0 THEN Catalogue!Entry("file", files[i])
              ELSE IF got[i] > 0 THEN Catalogue!Entry("image", got[i]) ELSE Catalogue!Missing
BY DEF Versions, Listing, Catalogue!Merged, Catalogue!Entry, Catalogue!Missing

LEMMA IdleType == Catalogue!Nothing \in Versions /\ Catalogue!Idle \in Refresh
BY DEF Versions, Refresh, Catalogue!Nothing, Catalogue!Idle

LEMMA AsksKeeps ==
  ASSUME CatalogueInv, NEW r \in CatalogueRequests, Catalogue!Asks(r)
  PROVE  CatalogueInv'
<1>1. PICK w \in Workers, refresh \in BOOLEAN :
       LET q == [Catalogue!Idle EXCEPT !.worker = w, !.refresh = refresh, !.files = local,
                             !.asked = registry, !.floor = catalogueShown]
       IN catalogueRequests' = [catalogueRequests EXCEPT ![r] =
            IF cache[w] # None /\ ~ refresh THEN Catalogue!Answered(q, cache[w])
            ELSE [q EXCEPT !.pc = "list"]]
  BY DEF Catalogue!Asks
<1>. DEFINE q == [Catalogue!Idle EXCEPT !.worker = w, !.refresh = refresh, !.files = local,
                             !.asked = registry, !.floor = catalogueShown]
<1>2. q \in Refresh /\ q.asked = registry /\ q.refresh = refresh
  BY IdleType DEF Refresh, CatalogueInv, CatalogueTypes
<1>3. cache[w] \in Listing \cup {None} /\ registry \in Versions
  BY DEF CatalogueInv, CatalogueTypes
<1>. HIDE DEF q
<1>4. /\ Catalogue!Answered(q, cache[w]) \in Refresh
      /\ Catalogue!Answered(q, cache[w]).pc = "answered"
      /\ Catalogue!Answered(q, cache[w]).refresh = refresh
  BY <1>2, <1>3 DEF Refresh, Catalogue!Answered
<1>5. ~refresh => Fetched(Catalogue!Answered(q, cache[w])) /\ Fresh(Catalogue!Answered(q, cache[w]))
  BY <1>4 DEF Fetched, Fresh
<1>6. [q EXCEPT !.pc = "list"] \in Refresh
  BY <1>2 DEF Refresh
<1>7. Fetched([q EXCEPT !.pc = "list"]) /\ Fresh([q EXCEPT !.pc = "list"])
  BY <1>2, <1>3 DEF Fetched, Fresh, Refresh, Versions
<1>8. \E p \in Refresh : /\ Fetched(p) /\ Fresh(p)
                         /\ catalogueRequests' = [catalogueRequests EXCEPT ![r] = p]
  BY <1>1, <1>4, <1>5, <1>6, <1>7 DEF q
<1>9. UNCHANGED <<registry, local, catalogueShown, cache>>
  BY DEF Catalogue!Asks
<1>10. QED
  BY <1>8, <1>9, RefreshMoves DEF CatalogueInv, CatalogueTypes

LEMMA FetchKeeps ==
  ASSUME CatalogueInv, NEW r \in CatalogueRequests,
         \/ Catalogue!Lists(r) \/ Catalogue!Fetches(r) \/ Catalogue!Skips(r)
         \/ Catalogue!Raises(r)
  PROVE  CatalogueInv'
<1>. DEFINE q == catalogueRequests[r]
<1>1. q \in Refresh /\ Fetched(q) /\ registry \in Versions
  BY DEF CatalogueInv, CatalogueTypes
<1>2. UNCHANGED <<registry, local, catalogueShown, cache>>
  BY DEF Catalogue!Lists, Catalogue!Fetches, Catalogue!Skips, Catalogue!Raises
<1>. SUFFICES \E p \in Refresh : /\ Fetched(p) /\ Fresh(p)
                                 /\ catalogueRequests' = [catalogueRequests EXCEPT ![r] = p]
  BY <1>2, RefreshMoves DEF CatalogueInv, CatalogueTypes
<1>3. CASE Catalogue!Lists(r)
  <2>. DEFINE p == [q EXCEPT !.pc = "fetch", !.left = {i \in Images : registry[i] > 0}]
  <2>1. /\ p \in Refresh /\ p.pc = "fetch" /\ q.pc = "list" /\ p.asked = q.asked
        /\ p.left = {i \in Images : registry[i] > 0}
    BY <1>1, <1>3 DEF Refresh, Catalogue!Lists
  <2>0. \A i \in Images : q.asked[i] \in Nat /\ registry[i] \in Nat /\ q.asked[i] <= registry[i]
    BY <1>1, <2>1 DEF Refresh, Versions, Fetched
  <2>. HIDE DEF p
  <2>2. Fetched(p) /\ Fresh(p)
    BY <2>0, <2>1 DEF Fetched, Fresh
  <2>3. catalogueRequests' = [catalogueRequests EXCEPT ![r] = p]
    BY <1>3 DEF Catalogue!Lists, CatalogueInv, CatalogueTypes, p
  <2>4. QED
    BY <2>1, <2>2, <2>3
<1>4. CASE Catalogue!Fetches(r)
  <2>1. PICK i \in q.left : catalogueRequests' =
          [catalogueRequests EXCEPT ![r].left = @ \ {i}, ![r].got[i] = registry[i]]
    BY <1>4 DEF Catalogue!Fetches
  <2>. DEFINE p == [q EXCEPT !.left = @ \ {i}, !.got[i] = registry[i]]
  <2>2. i \in Images /\ q.pc = "fetch" /\ q.got \in Versions
    BY <1>1, <1>4 DEF Refresh, Catalogue!Fetches
  <2>3. /\ p \in Refresh /\ p.pc = "fetch" /\ p.asked = q.asked /\ p.left = q.left \ {i}
        /\ p.skipped = q.skipped /\ p.got = [q.got EXCEPT ![i] = registry[i]]
    BY <1>1, <2>2 DEF Refresh, Versions
  <2>4. Fetched(p) /\ Fresh(p)
    BY <1>1, <2>2, <2>3 DEF Fetched, Fresh, Versions
  <2>5. catalogueRequests' = [catalogueRequests EXCEPT ![r] = p]
    BY <2>1 DEF CatalogueInv, CatalogueTypes
  <2>6. QED
    BY <2>3, <2>4, <2>5
<1>5. CASE Catalogue!Skips(r)
  <2>1. PICK i \in q.left : catalogueRequests' =
          [catalogueRequests EXCEPT ![r].left = @ \ {i}, ![r].skipped = @ \cup {i}]
    BY <1>5 DEF Catalogue!Skips
  <2>. DEFINE p == [q EXCEPT !.left = @ \ {i}, !.skipped = @ \cup {i}]
  <2>2. i \in Images /\ q.pc = "fetch"
    BY <1>1, <1>5 DEF Refresh, Catalogue!Skips
  <2>3. /\ p \in Refresh /\ p.pc = "fetch" /\ p.asked = q.asked /\ p.left = q.left \ {i}
        /\ p.skipped = q.skipped \cup {i} /\ p.got = q.got
    BY <1>1, <2>2 DEF Refresh
  <2>4. Fetched(p) /\ Fresh(p)
    BY <1>1, <2>2, <2>3 DEF Fetched, Fresh
  <2>5. catalogueRequests' = [catalogueRequests EXCEPT ![r] = p]
    BY <2>1 DEF CatalogueInv, CatalogueTypes
  <2>6. QED
    BY <2>3, <2>4, <2>5
<1>6. CASE Catalogue!Raises(r)
  <2>. DEFINE p == [q EXCEPT !.pc = "failed"]
  <2>1. p \in Refresh /\ Fetched(p) /\ Fresh(p)
    BY <1>1 DEF Refresh, Fetched, Fresh
  <2>2. catalogueRequests' = [catalogueRequests EXCEPT ![r] = p]
    BY <1>6 DEF Catalogue!Raises, CatalogueInv, CatalogueTypes
  <2>3. QED
    BY <2>1, <2>2
<1>7. QED
  BY <1>3, <1>4, <1>5, <1>6

LEMMA StoresKeeps ==
  ASSUME CatalogueInv, NEW r \in CatalogueRequests, Catalogue!Stores(r)
  PROVE  CatalogueInv'
<1>. DEFINE q == catalogueRequests[r]
            m == Catalogue!Merged(q.files, q.got)
            p == Catalogue!Answered(q, m)
<1>1. q \in Refresh /\ Fetched(q) /\ q.pc = "fetch" /\ q.left = {}
  BY DEF CatalogueInv, CatalogueTypes, Catalogue!Stores
<1>2. q.files \in Versions /\ q.got \in Versions /\ q.asked \in Versions
  BY <1>1 DEF Refresh
<1>3. /\ m \in Listing
      /\ \A i \in Images : m[i] =
              IF q.files[i] > 0 THEN Catalogue!Entry("file", q.files[i])
              ELSE IF q.got[i] > 0 THEN Catalogue!Entry("image", q.got[i]) ELSE Catalogue!Missing
  BY <1>2, MergedType
<1>. HIDE DEF m
<1>4. /\ p \in Refresh /\ p.pc = "answered" /\ p.answer = m /\ p.files = q.files
      /\ p.asked = q.asked /\ p.skipped = q.skipped
  BY <1>1, <1>3 DEF Refresh, Catalogue!Answered
<1>5. Fetched(p)
  BY <1>4 DEF Fetched
<1>6. Fresh(p)
  <2>. SUFFICES ASSUME NEW i \in Images
                PROVE  IF q.files[i] > 0 THEN m[i] = Catalogue!Entry("file", q.files[i])
                       ELSE q.asked[i] > 0 /\ i \notin q.skipped =>
                              m[i].kind = "image" /\ m[i].version >= q.asked[i]
    BY <1>4 DEF Fresh
  <2>1. q.files[i] \in Nat /\ q.got[i] \in Nat /\ q.asked[i] \in Nat
    BY <1>2 DEF Versions
  <2>2. q.asked[i] > 0 /\ i \notin q.skipped => q.got[i] >= q.asked[i]
    BY <1>1 DEF Fetched
  <2>3. CASE q.files[i] > 0
    BY <1>3, <2>3
  <2>4. CASE ~(q.files[i] > 0) /\ q.asked[i] > 0 /\ i \notin q.skipped
    <3>1. q.got[i] > 0 /\ q.got[i] >= q.asked[i]
      BY <2>1, <2>2, <2>4
    <3>2. m[i] = Catalogue!Entry("image", q.got[i])
      BY <1>3, <2>4, <3>1
    <3>3. QED
      BY <2>4, <3>1, <3>2 DEF Catalogue!Entry
  <2>5. QED
    BY <2>3, <2>4
<1>7. catalogueRequests' = [catalogueRequests EXCEPT ![r] = p] /\ UNCHANGED <<registry, local>>
  BY DEF Catalogue!Stores, m
<1>8. cache' \in [Workers -> Listing \cup {None}]
  BY <1>3 DEF Catalogue!Stores, CatalogueInv, CatalogueTypes, m
<1>9. catalogueShown' \in Versions
  BY <1>2 DEF Catalogue!Stores, CatalogueInv, CatalogueTypes, Versions
<1>10. QED
  BY <1>4, <1>5, <1>6, <1>7, <1>8, <1>9, RefreshMoves

LEMMA PublishesKeeps ==
  ASSUME CatalogueInv, Catalogue!Publishes
  PROVE  CatalogueInv'
<1>1. /\ registry' \in Versions /\ local' \in Versions
      /\ \A i \in Images : registry'[i] >= registry[i] /\ registry[i] \in Nat /\ registry'[i] \in Nat
  BY DEF Catalogue!Publishes, CatalogueInv, CatalogueTypes, Versions
<1>2. UNCHANGED <<cache, catalogueRequests, catalogueShown>>
  BY DEF Catalogue!Publishes
<1>3. ASSUME NEW r \in CatalogueRequests PROVE Fetched(catalogueRequests[r])' /\ Fresh(catalogueRequests[r])'
  <2>1. \A i \in Images : catalogueRequests[r].asked[i] \in Nat
    BY DEF CatalogueInv, CatalogueTypes, Refresh, Versions
  <2>2. Fetched(catalogueRequests[r]) /\ Fresh(catalogueRequests[r])
    BY DEF CatalogueInv
  <2>3. QED
    BY <1>1, <1>2, <2>1, <2>2 DEF Fetched, Fresh
<1>4. QED
  BY <1>1, <1>2, <1>3 DEF CatalogueInv, CatalogueTypes

LEMMA CatalogueInit == Catalogue!Init => CatalogueInv
BY IdleType DEF Catalogue!Init, CatalogueInv, CatalogueTypes, Fetched, Fresh, Catalogue!Idle, Versions

LEMMA CatalogueNext ==
  ASSUME CatalogueInv, [Catalogue!Next]_(Catalogue!vars)
  PROVE  CatalogueInv'
<1>1. CASE UNCHANGED Catalogue!vars
  BY <1>1 DEF Catalogue!vars, CatalogueInv, CatalogueTypes, Fetched, Fresh
<1>2. QED
  BY <1>1, AsksKeeps, FetchKeeps, StoresKeeps, PublishesKeeps DEF Catalogue!Next

LEMMA CatalogueShowsFresh == CatalogueInv => Catalogue!RefreshIsFresh
BY DEF CatalogueInv, Fresh, Catalogue!RefreshIsFresh, Catalogue!AnsweredRefreshes

(* A refresh shows nothing older than what there was when it was asked, and*)
(* leaves out nothing but what the registry refused, for any number of     *)
(* requests and workers, with images pushed while it is put together.      *)
THEOREM RefreshesAreFresh == Catalogue!Spec => []Catalogue!RefreshIsFresh
<1>1. QED
  BY CatalogueInit, CatalogueNext, CatalogueShowsFresh, PTL DEF Catalogue!Spec

------------------------------------------------------------------------------
(* The parameter of an operator.                                           *)
ParamsInv ==
  /\ parameterUpdates \in Nat
  /\ next \in [Replicas -> Nat] /\ first \in [Replicas -> Nat] /\ held \in [Replicas -> Nat]
  /\ acks \in [Replicas -> Seq(Params!Versions)]
  /\ Params!TypeOK

LEMMA ParamsInit == Params!ParametersAssumption /\ Params!Init => ParamsInv
BY DEF Params!ParametersAssumption, Params!Init, Params!TypeOK, ParamsInv, Params!Versions

(* An update is handled only when it is the last one.                      *)
LEMMA HandleType ==
  ASSUME ParamsInv, NEW r \in Replicas, NEW u \in Params!Kept, Params!Handle(r, u)
  PROVE  /\ held' \in [Replicas -> Nat] /\ acks' \in [Replicas -> Seq(Params!Versions)]
         /\ \A q \in Replicas : /\ held'[q] <= parameterUpdates /\ held'[q] \notin InvalidUpdates
                                /\ held'[q] >= held[q]
<1>1. u = parameterUpdates /\ u \in Nat /\ u \in Params!Versions
  BY DEF Params!Kept, ParamsInv, Params!TypeOK
<1>2. CASE u \in InvalidUpdates
  BY <1>2 DEF Params!Handle, ParamsInv, Params!TypeOK
<1>3. CASE u \notin InvalidUpdates
  <2>1. held' = [held EXCEPT ![r] = u] /\ acks' = [acks EXCEPT ![r] = Append(@, u)]
    BY <1>3 DEF Params!Handle
  <2>2. acks' \in [Replicas -> Seq(Params!Versions)]
    BY <1>1, <2>1 DEF ParamsInv
  <2>3. QED
    BY <1>1, <1>3, <2>1, <2>2 DEF ParamsInv, Params!TypeOK
<1>4. QED
  BY <1>2, <1>3

LEMMA ParamsNext ==
  ASSUME Params!ParametersAssumption, ParamsInv, [Params!Next]_(Params!vars)
  PROVE  ParamsInv' /\ Params!HeldNotOlder
<1>1. CASE UNCHANGED Params!vars
  BY <1>1 DEF Params!vars, Params!consumerVars, ParamsInv, Params!TypeOK, Params!HeldNotOlder
<1>2. CASE Params!UpdateParameter
  BY <1>2 DEF Params!UpdateParameter, Params!consumerVars, Params!Deaf, ParamsInv, Params!TypeOK,
              Params!Versions, Params!HeldNotOlder, Params!ParametersAssumption
<1>3. ASSUME NEW r \in Replicas,
             Params!InitializeParameters(r) \/ Params!CreateConsumer(r) \/ Params!LosesConsumer(r) \/ Params!Dies(r)
      PROVE  ParamsInv' /\ Params!HeldNotOlder
  <2>1. <<0>> \in Seq(Params!Versions) /\ <<>> \in Seq(Params!Versions)
    BY DEF Params!Versions, Params!ParametersAssumption
  <2>2. CASE Params!InitializeParameters(r)
    BY <2>1, <2>2 DEF Params!InitializeParameters, Params!Becomes, Params!consumerVars, ParamsInv,
       Params!TypeOK, Params!HeldNotOlder, Params!ParametersAssumption
  <2>3. CASE Params!CreateConsumer(r)
    BY <2>3 DEF Params!CreateConsumer, Params!Becomes, ParamsInv, Params!TypeOK, Params!HeldNotOlder
  <2>4. CASE Params!LosesConsumer(r)
    BY <2>4 DEF Params!LosesConsumer, Params!Becomes, Params!consumerVars, ParamsInv, Params!TypeOK,
                Params!HeldNotOlder
  <2>5. CASE Params!Dies(r)
    <3>1. acks' \in [Replicas -> Seq(Params!Versions)]
      BY <2>1, <2>5 DEF Params!Dies, ParamsInv
    <3>2. QED
      BY <2>5, <3>1 DEF Params!Dies, Params!Becomes, Params!consumerVars, ParamsInv, Params!TypeOK,
                        Params!HeldNotOlder
  <2>6. QED
    BY <1>3, <2>2, <2>3, <2>4, <2>5
<1>4. ASSUME NEW r \in Replicas, Params!HandleParameterUpdate(r) \/ Params!Redeliver(r)
      PROVE  ParamsInv' /\ Params!HeldNotOlder
  <2>1. PICK u \in Params!Kept :
          /\ Params!Handle(r, u)
          /\ (next' = [next EXCEPT ![r] = u + 1] /\ u >= next[r]) \/ UNCHANGED next
    BY <1>4 DEF Params!HandleParameterUpdate, Params!Redeliver, Params!consumerVars
  <2>2. UNCHANGED <<parameterUpdates, process, first, parameterShown, missed>>
    BY <1>4 DEF Params!HandleParameterUpdate, Params!Redeliver, Params!consumerVars
  <2>3. u = parameterUpdates /\ u \in Nat
    BY DEF Params!Kept, ParamsInv
  <2>4. /\ next' \in [Replicas -> Nat]
        /\ \A q \in Replicas : first[q] <= next'[q] /\ next'[q] <= parameterUpdates + 1
    <3>1. ASSUME NEW q \in Replicas
          PROVE  /\ first[q] \in Nat /\ next[q] \in Nat /\ first[q] <= next[q]
                 /\ next[q] <= parameterUpdates + 1
      BY DEF ParamsInv, Params!TypeOK
    <3>2. CASE UNCHANGED next
      BY <3>1, <3>2 DEF ParamsInv
    <3>3. CASE next' = [next EXCEPT ![r] = u + 1] /\ u >= next[r]
      BY <2>3, <3>1, <3>3 DEF ParamsInv
    <3>4. QED
      BY <2>1, <3>2, <3>3
  <2>5. /\ held' \in [Replicas -> Nat] /\ acks' \in [Replicas -> Seq(Params!Versions)]
        /\ \A q \in Replicas : /\ held'[q] <= parameterUpdates /\ held'[q] \notin InvalidUpdates
                               /\ held'[q] >= held[q]
    BY <2>1, HandleType
  <2>6. QED
    BY <2>2, <2>4, <2>5 DEF ParamsInv, Params!TypeOK, Params!HeldNotOlder
<1>5. ASSUME NEW r \in Replicas, Params!PublishAck(r) PROVE ParamsInv' /\ Params!HeldNotOlder
  <2>1. Head(acks[r]) \in Params!Versions /\ Tail(acks[r]) \in Seq(Params!Versions)
    BY <1>5, HeadTailProperties, EmptySeq DEF Params!PublishAck, ParamsInv
  <2>2. QED
    BY <1>5, <2>1 DEF Params!PublishAck, Params!consumerVars, ParamsInv, Params!TypeOK, Params!HeldNotOlder
<1>6. QED
  BY <1>1, <1>2, <1>3, <1>4, <1>5 DEF Params!Next, Params!Works

(* While a process lives its parameter never goes back to an older update  *)
(* and never takes an invalid one, though messages are delivered again and *)
(* consumers are created anew.                                             *)
THEOREM ParametersNeverGoBack ==
  ASSUME Params!ParametersAssumption
  PROVE  Params!Spec => []Params!TypeOK /\ Params!NeverOlder
<1>1. ParamsInv => Params!TypeOK
  BY DEF ParamsInv
<1>2. ParamsInv /\ [Params!Next]_(Params!vars) => [Params!HeldNotOlder]_(Params!vars)
  BY ParamsNext
<1>3. QED
  BY <1>1, <1>2, ParamsInit, ParamsNext, PTL DEF Params!Spec, Params!NeverOlder

------------------------------------------------------------------------------
(* The loops that keep keys in a bucket.                                   *)
Sent == [op : {"put", "delete"}, version : Nat, for : Keys!Tasks \cup {"nobody"}]
KeysTypeOK ==
  /\ loopValue \in Nat /\ store \in Nat /\ wire \in Seq(Sent)
  /\ loopPc \in [Keys!Tasks -> {"idle", "putting", "mending", "deleting", "remending", "gone",
                                "unable", "timed out", "dead", "cancelled"}]
  /\ loopPc["stop"] \in {"idle", "deleting", "remending", "gone", "unable", "timed out"}
  /\ running \in BOOLEAN

Puts(i) == wire[i].op = "put"
(* Puts arrive in the order in which the value changed; what is sent after *)
(* a delete of stop is a delete.                                           *)
WireInOrder ==
  /\ store <= loopValue
  /\ \A i \in 1 .. Len(wire) :
       /\ wire[i].op = "delete" => wire[i].version = 0
       /\ Puts(i) => store <= wire[i].version /\ wire[i].version <= loopValue
       /\ wire[i].for = "stop" => ~running /\ wire[i].op = "delete"
  /\ \A i, j \in 1 .. Len(wire) : i < j =>
       /\ Puts(i) /\ Puts(j) => wire[i].version <= wire[j].version
       /\ wire[i].for = "stop" => wire[j].op = "delete"
StoppedFirst == loopPc["stop"] # "idle" => ~running
KeysInv == KeysTypeOK /\ WireInOrder /\ StoppedFirst /\ Keys!CleanAfterStop

LEMMA WireType ==
  ASSUME wire \in Seq(Sent)
  PROVE  /\ Len(wire) \in Nat /\ DOMAIN wire = 1 .. Len(wire)
         /\ \A i \in 1 .. Len(wire) : wire[i] \in Sent
BY LenProperties, ElementOfSeq

(* One more request is sent; or some are, and some of those on their way   *)
(* are no longer waited for.                                               *)
LEMMA Sends ==
  ASSUME KeysInv, NEW m \in Sent, wire' = Append(wire, m), store' = store, loopValue' = loopValue, running' = running,
         m.op = "delete" => m.version = 0,
         m.op = "put" => m.version = loopValue /\ running,
         m.for = "stop" => ~running /\ m.op = "delete"
  PROVE  /\ wire' \in Seq(Sent) /\ WireInOrder'
         /\ (~running /\ (\A i \in DOMAIN wire : wire[i].op = "delete"))
               => (\A i \in DOMAIN wire' : wire'[i].op = "delete")
<1>1. /\ Len(wire) \in Nat /\ DOMAIN wire = 1 .. Len(wire)
      /\ \A i \in 1 .. Len(wire) : wire[i] \in Sent
  BY WireType DEF KeysInv, KeysTypeOK
<1>2. /\ wire' \in Seq(Sent) /\ Len(wire') = Len(wire) + 1 /\ wire'[Len(wire) + 1] = m
      /\ \A i \in 1 .. Len(wire) : wire'[i] = wire[i]
  <2>1. wire \in Seq(Sent)
    BY DEF KeysInv, KeysTypeOK
  <2>2. /\ Append(wire, m) \in Seq(Sent) /\ Len(Append(wire, m)) = Len(wire) + 1
        /\ Append(wire, m)[Len(wire) + 1] = m
        /\ \A i \in 1 .. Len(wire) : Append(wire, m)[i] = wire[i]
    BY <2>1, AppendProperties
  <2>3. QED
    BY <2>2
<1>3. DOMAIN wire' = 1 .. Len(wire')
  BY <1>2, LenProperties
<1>4. \A i \in 1 .. Len(wire') : i \in 1 .. Len(wire) \/ i = Len(wire) + 1
  BY <1>1, <1>2
<1>5. ASSUME NEW i \in 1 .. Len(wire')
      PROVE  /\ wire'[i].op = "delete" => wire'[i].version = 0
             /\ wire'[i].op = "put" => store <= wire'[i].version /\ wire'[i].version <= loopValue
             /\ wire'[i].for = "stop" => ~running /\ wire'[i].op = "delete"
  <2>1. CASE i \in 1 .. Len(wire)
    BY <1>2, <2>1 DEF KeysInv, WireInOrder, Puts
  <2>2. CASE i = Len(wire) + 1
    <3>1. wire'[i] = m /\ store <= loopValue /\ loopValue \in Nat
      BY <1>2, <2>2 DEF KeysInv, KeysTypeOK, WireInOrder
    <3>2. QED
      BY <3>1
  <2>3. QED
    BY <1>4, <2>1, <2>2
<1>6. ASSUME NEW i \in 1 .. Len(wire'), NEW j \in 1 .. Len(wire'), i < j
      PROVE  /\ wire'[i].op = "put" /\ wire'[j].op = "put" => wire'[i].version <= wire'[j].version
             /\ wire'[i].for = "stop" => wire'[j].op = "delete"
  <2>1. i \in 1 .. Len(wire)
    BY <1>1, <1>2, <1>6
  <2>2. CASE j \in 1 .. Len(wire)
    BY <1>2, <1>6, <2>1, <2>2 DEF KeysInv, WireInOrder, Puts
  <2>3. CASE j = Len(wire) + 1
    BY <1>2, <2>1, <2>3 DEF KeysInv, WireInOrder, Puts, Sent
  <2>4. QED
    BY <1>4, <2>2, <2>3
<1>7. WireInOrder'
  BY <1>5, <1>6 DEF KeysInv, WireInOrder, Puts
<1>8. QED
  BY <1>1, <1>2, <1>3, <1>4, <1>7 DEF Sent

LEMMA Forgets ==
  ASSUME KeysInv, NEW t \in Keys!Tasks
  PROVE  /\ Keys!Forgotten(t) \in Seq(Sent) /\ Len(Keys!Forgotten(t)) = Len(wire)
         /\ \A i \in 1 .. Len(wire) :
              /\ Keys!Forgotten(t)[i].op = wire[i].op
              /\ Keys!Forgotten(t)[i].version = wire[i].version
              /\ Keys!Forgotten(t)[i].for \in {wire[i].for, "nobody"}
<1>1. /\ Len(wire) \in Nat /\ DOMAIN wire = 1 .. Len(wire)
      /\ \A i \in 1 .. Len(wire) : wire[i] \in Sent
  BY WireType DEF KeysInv, KeysTypeOK
<1>. DEFINE f == Keys!Forgotten(t)
<1>2. f \in [1 .. Len(wire) -> Sent] /\ DOMAIN f = 1 .. Len(wire)
  BY <1>1 DEF Keys!Forgotten, Sent
<1>3. f \in Seq(Sent)
  BY <1>1, <1>2, SeqDef
<1>4. Len(f) \in Nat /\ DOMAIN f = 1 .. Len(f)
  BY <1>3, LenProperties
<1>5. Len(f) = Len(wire)
  BY <1>1, <1>2, <1>4
<1>6. \A i \in 1 .. Len(wire) :
        f[i].op = wire[i].op /\ f[i].version = wire[i].version /\ f[i].for \in {wire[i].for, "nobody"}
  BY <1>1 DEF Keys!Forgotten, Sent
<1>7. QED
  BY <1>3, <1>5, <1>6

LEMMA ForgetsKeeps ==
  ASSUME KeysInv, NEW t \in Keys!Tasks, wire' = Keys!Forgotten(t), UNCHANGED <<store, loopValue>>,
         running' => running
  PROVE  /\ wire' \in Seq(Sent) /\ WireInOrder'
         /\ (\A i \in DOMAIN wire : wire[i].op = "delete") => \A i \in DOMAIN wire' : wire'[i].op = "delete"
<1>1. /\ wire' \in Seq(Sent) /\ Len(wire') = Len(wire)
      /\ \A i \in 1 .. Len(wire) :
           /\ wire'[i].op = wire[i].op /\ wire'[i].version = wire[i].version
           /\ wire'[i].for \in {wire[i].for, "nobody"}
  BY Forgets
<1>2. DOMAIN wire' = 1 .. Len(wire) /\ DOMAIN wire = 1 .. Len(wire)
  BY <1>1, LenProperties DEF KeysInv, KeysTypeOK
<1>3. QED
  BY <1>1, <1>2 DEF KeysInv, WireInOrder, Puts

(* The request in front leaves the wire; it may reach the bucket.          *)
LEMMA TailKeeps ==
  ASSUME KeysInv, wire # <<>>, wire' = Tail(wire), UNCHANGED <<loopValue, running>>,
         store' \in {store, wire[1].version}
  PROVE  /\ wire' \in Seq(Sent) /\ WireInOrder' /\ store' \in Nat
         /\ wire[1].for = "stop" \/ (\A i \in DOMAIN wire : wire[i].op = "delete") =>
              \A i \in DOMAIN wire' : wire'[i].op = "delete"
         /\ wire[1].for = "stop" \/ (\A i \in DOMAIN wire : wire[i].op = "delete") => wire[1].version = 0
         /\ wire[1].version = 0 \/ wire[1].version >= store
<1>1. wire \in Seq(Sent)
  BY DEF KeysInv, KeysTypeOK
<1>2. /\ Len(wire) \in Nat /\ DOMAIN wire = 1 .. Len(wire) /\ Len(wire) > 0
      /\ \A i \in 1 .. Len(wire) : wire[i] \in Sent
  BY <1>1, WireType, EmptySeq
<1>3. /\ wire' \in Seq(Sent) /\ Len(wire') = Len(wire) - 1
      /\ \A i \in 1 .. Len(wire') : wire'[i] = wire[i + 1]
  BY <1>1, HeadTailProperties
<1>4. DOMAIN wire' = 1 .. Len(wire')
  BY <1>3, LenProperties
<1>5. 1 \in 1 .. Len(wire) /\ \A i \in 1 .. Len(wire') : i + 1 \in 1 .. Len(wire) /\ 1 < i + 1
  BY <1>2, <1>3
<1>6. wire[1].op \in {"put", "delete"} /\ wire[1].version \in Nat
  BY <1>2, <1>5 DEF Sent
<1>7. wire[1].version <= loopValue /\ (wire[1].version = 0 \/ wire[1].version >= store) /\ store' \in Nat
  <2>1. store \in Nat /\ loopValue \in Nat /\ store <= loopValue
    BY DEF KeysInv, KeysTypeOK, WireInOrder
  <2>2. /\ wire[1].op = "delete" => wire[1].version = 0
        /\ wire[1].op = "put" => store <= wire[1].version /\ wire[1].version <= loopValue
    BY <1>5 DEF KeysInv, WireInOrder, Puts
  <2>3. QED
    BY <1>6, <2>1, <2>2
<1>8. ASSUME NEW i \in 1 .. Len(wire')
      PROVE  /\ wire'[i].op = "delete" => wire'[i].version = 0
             /\ wire'[i].op = "put" => store' <= wire'[i].version /\ wire'[i].version <= loopValue
             /\ wire'[i].for = "stop" => ~running /\ wire'[i].op = "delete"
  <2>1. i + 1 \in 1 .. Len(wire) /\ wire'[i] = wire[i + 1] /\ 1 < i + 1
    BY <1>3, <1>5
  <2>2. PICK k \in 1 .. Len(wire) : k = i + 1 /\ wire'[i] = wire[k] /\ 1 < k
    BY <2>1
  <2>3. wire[k].version \in Nat /\ store \in Nat
    BY <1>2 DEF Sent, KeysInv, KeysTypeOK
  <2>4. Puts(k) => wire[1].version <= wire[k].version
    BY <1>5, <1>6, <2>2, <2>3 DEF KeysInv, WireInOrder, Puts
  <2>5. QED
    BY <2>2, <2>4 DEF KeysInv, WireInOrder, Puts
<1>9. ASSUME NEW i \in 1 .. Len(wire'), NEW j \in 1 .. Len(wire'), i < j
      PROVE  /\ wire'[i].op = "put" /\ wire'[j].op = "put" => wire'[i].version <= wire'[j].version
             /\ wire'[i].for = "stop" => wire'[j].op = "delete"
  <2>1. PICK k \in 1 .. Len(wire) : k = i + 1 /\ wire'[i] = wire[k]
    BY <1>3, <1>5
  <2>2. PICK l \in 1 .. Len(wire) : l = j + 1 /\ wire'[j] = wire[l]
    BY <1>3, <1>5
  <2>3. k < l
    BY <1>9, <2>1, <2>2
  <2>4. QED
    BY <2>1, <2>2, <2>3 DEF KeysInv, WireInOrder, Puts
<1>10. WireInOrder'
  BY <1>7, <1>8, <1>9 DEF KeysInv, WireInOrder, Puts
<1>11. wire[1].for = "stop" \/ (\A i \in DOMAIN wire : wire[i].op = "delete") =>
         wire[1].version = 0 /\ \A i \in DOMAIN wire' : wire'[i].op = "delete"
  <2>1. SUFFICES ASSUME wire[1].for = "stop" \/ (\A i \in DOMAIN wire : wire[i].op = "delete"),
                        NEW i \in DOMAIN wire'
                 PROVE  wire[1].op = "delete" /\ wire'[i].op = "delete"
    <3>1. wire[1].for = "stop" \/ (\A i \in DOMAIN wire : wire[i].op = "delete") => wire[1].op = "delete"
      BY <1>2, <1>5 DEF KeysInv, WireInOrder
    <3>2. wire[1].op = "delete" => wire[1].version = 0
      BY <1>5 DEF KeysInv, WireInOrder
    <3>3. QED
      BY <3>1, <3>2
  <2>2. PICK k \in 1 .. Len(wire) : k = i + 1 /\ wire'[i] = wire[k] /\ 1 < k
    BY <1>3, <1>4, <1>5
  <2>3. QED
    BY <1>2, <1>5, <2>1, <2>2 DEF KeysInv, WireInOrder
<1>12. QED
  BY <1>3, <1>7, <1>10, <1>11

(* A task that is not stop goes on; or stop does.                          *)
LEMMA TaskGoes ==
  ASSUME KeysInv, Keys!LoopAssumption, NEW t \in Keys!Tasks,
         NEW p \in {"idle", "putting", "mending", "deleting", "remending", "gone",
                    "unable", "timed out", "dead", "cancelled"},
         Keys!Goes(t, p), t = "stop" => p \in {"deleting", "remending", "gone", "unable", "timed out"}
  PROVE  /\ loopPc' \in [Keys!Tasks -> {"idle", "putting", "mending", "deleting", "remending", "gone",
                                "unable", "timed out", "dead", "cancelled"}]
         /\ loopPc'["stop"] \in {"idle", "deleting", "remending", "gone", "unable", "timed out"}
         /\ t # "stop" => loopPc'["stop"] = loopPc["stop"]
         /\ loopPc'["stop"] # "idle" => loopPc["stop"] # "idle" \/ t = "stop"
         /\ loopPc'["stop"] = "gone" => loopPc["stop"] = "gone" \/ (t = "stop" /\ p = "gone")
BY DEF KeysInv, KeysTypeOK, Keys!Goes, Keys!Tasks, Keys!Stopper

LEMMA KeysStart == Keys!Init => KeysInv
<1>1. SUFFICES ASSUME Keys!Init PROVE KeysInv
  OBVIOUS
<1>2. wire = <<>> /\ Len(wire) = 0 /\ wire \in Seq(Sent)
  BY <1>1, EmptySeq DEF Keys!Init
<1>3. KeysTypeOK
  BY <1>1, <1>2 DEF Keys!Init, KeysTypeOK, Keys!Tasks, Keys!Stopper
<1>4. \A i \in 1 .. Len(wire) : FALSE
  BY <1>2
<1>5. WireInOrder
  BY <1>1, <1>4 DEF Keys!Init, WireInOrder
<1>6. StoppedFirst /\ Keys!CleanAfterStop
  BY <1>1 DEF Keys!Init, StoppedFirst, Keys!CleanAfterStop, Keys!Tasks, Keys!Stopper
<1>7. QED
  BY <1>3, <1>5, <1>6 DEF KeysInv

Progresses == {"idle", "putting", "mending", "deleting", "remending", "gone",
               "unable", "timed out", "dead", "cancelled"}

LEMMA StoreStays ==
  ASSUME store \in Nat, store' = store
  PROVE  Keys!NotOlder
BY DEF Keys!NotOlder

(* A step of one task, as the invariant sees it.                           *)
LEMMA TaskSteps ==
  ASSUME KeysInv, Keys!LoopAssumption, NEW t \in Keys!Tasks, NEW p \in Progresses, Keys!Goes(t, p),
         t = "stop" => p \in {"deleting", "remending", "unable", "timed out"},
         t = "stop" => ~running,
         store' = store, loopValue' = loopValue, running' = running, wire' \in Seq(Sent), WireInOrder',
         ~running /\ (\A i \in DOMAIN wire : wire[i].op = "delete")
           => \A i \in DOMAIN wire' : wire'[i].op = "delete"
  PROVE  KeysInv' /\ Keys!NotOlder
<1>1. /\ loopPc' \in [Keys!Tasks -> Progresses]
      /\ loopPc'["stop"] \in {"idle", "deleting", "remending", "gone", "unable", "timed out"}
      /\ loopPc'["stop"] # "idle" => loopPc["stop"] # "idle" \/ t = "stop"
      /\ loopPc'["stop"] = "gone" => loopPc["stop"] = "gone"
  BY TaskGoes DEF Progresses
<1>2. KeysTypeOK'
  BY <1>1 DEF KeysInv, KeysTypeOK, Progresses
<1>3. StoppedFirst'
  BY <1>1 DEF KeysInv, StoppedFirst
<1>4. Keys!CleanAfterStop'
  BY <1>1 DEF KeysInv, StoppedFirst, Keys!CleanAfterStop, Keys!Stopper
<1>5. Keys!NotOlder
  BY StoreStays DEF KeysInv, KeysTypeOK
<1>6. KeysInv'
  BY <1>2, <1>3, <1>4 DEF KeysInv
<1>7. QED
  BY <1>5, <1>6

(* A step of one task that leaves the wire alone.                          *)
LEMMA QuietSteps ==
  ASSUME KeysInv, Keys!LoopAssumption, NEW t \in Keys!Tasks, NEW p \in Progresses, Keys!Goes(t, p),
         t = "stop" => p \in {"deleting", "remending", "unable", "timed out"},
         t = "stop" => ~running,
         store' = store, loopValue' = loopValue, running' = running, wire' = wire
  PROVE  KeysInv' /\ Keys!NotOlder
<1>1. wire' \in Seq(Sent) /\ WireInOrder'
  BY DEF KeysInv, KeysTypeOK, WireInOrder, Puts
<1>2. (\A i \in DOMAIN wire : wire[i].op = "delete") => \A i \in DOMAIN wire' : wire'[i].op = "delete"
  OBVIOUS
<1>3. QED
  BY <1>1, <1>2, TaskSteps

LEMMA KeysUpdate ==
  ASSUME KeysInv, Keys!LoopAssumption, NEW t \in Keys!Tasks, t # "stop", running, Keys!Updates(t)
  PROVE  KeysInv' /\ Keys!NotOlder
<1>1. store' = store /\ loopValue' = loopValue /\ running' = running
  BY DEF Keys!Updates, Keys!localVars
<1>2. CASE ~bucket
  <2>1. Keys!Goes(t, "mending") /\ UNCHANGED wire
    BY <1>2 DEF Keys!Updates
  <2>2. QED
    BY <1>1, <2>1, QuietSteps DEF Progresses
<1>3. CASE bucket
  <2>1. Keys!Goes(t, "putting") /\ wire' = Append(wire, Keys!Put(t))
    BY <1>3 DEF Keys!Updates
  <2>2. PICK m \in Sent : m = Keys!Put(t)
    BY DEF Keys!Put, Sent, KeysInv, KeysTypeOK
  <2>3. m.op = "put" /\ m.version = loopValue /\ m.for = t
    BY <2>2 DEF Keys!Put
  <2>4. wire' = Append(wire, m)
    BY <2>1, <2>2
  <2>5. /\ m.op = "delete" => m.version = 0
        /\ m.op = "put" => m.version = loopValue /\ running
        /\ m.for = "stop" => ~running /\ m.op = "delete"
    BY <2>3
  <2>6. wire' \in Seq(Sent) /\ WireInOrder'
    BY <1>1, <2>4, <2>5, Sends, ZenonT(30)
  <2>7. QED
    BY <1>1, <2>1, <2>6, TaskSteps DEF Progresses
<1>4. QED
  BY <1>2, <1>3

LEMMA KeysDelete ==
  ASSUME KeysInv, Keys!LoopAssumption, NEW t \in Keys!Tasks, t = "stop" => ~running,
         wire' = Append(wire, Keys!Delete(t)), Keys!Goes(t, "deleting"),
         store' = store, loopValue' = loopValue, running' = running
  PROVE  KeysInv' /\ Keys!NotOlder
<1>1. PICK m \in Sent : m = Keys!Delete(t)
  BY DEF Keys!Delete, Sent
<1>2. m.op = "delete" /\ m.version = 0 /\ m.for = t
  BY <1>1 DEF Keys!Delete
<1>3. wire' = Append(wire, m)
  BY <1>1
<1>4. /\ m.op = "delete" => m.version = 0
      /\ m.op = "put" => m.version = loopValue /\ running
      /\ m.for = "stop" => ~running /\ m.op = "delete"
  BY <1>2
<1>5. /\ wire' \in Seq(Sent) /\ WireInOrder'
      /\ ~running /\ (\A i \in DOMAIN wire : wire[i].op = "delete")
           => \A i \in DOMAIN wire' : wire'[i].op = "delete"
  BY <1>3, <1>4, Sends, ZenonT(30)
<1>6. QED
  BY <1>5, TaskSteps DEF Progresses

LEMMA KeysForget ==
  ASSUME KeysInv, Keys!LoopAssumption, NEW t \in Keys!Tasks, t = "stop" => ~running,
         wire' = Keys!Forgotten(t), NEW p \in Progresses, Keys!Goes(t, p),
         t = "stop" => p \in {"remending", "timed out"},
         store' = store, loopValue' = loopValue, running' = running
  PROVE  KeysInv' /\ Keys!NotOlder
<1>1. running' => running
  OBVIOUS
<1>2. /\ wire' \in Seq(Sent) /\ WireInOrder'
      /\ (\A i \in DOMAIN wire : wire[i].op = "delete")
           => \A i \in DOMAIN wire' : wire'[i].op = "delete"
  BY <1>1, ForgetsKeeps
<1>3. t = "stop" => p \in {"deleting", "remending", "unable", "timed out"}
  OBVIOUS
<1>4. QED
  BY <1>2, <1>3, TaskSteps

(* The handlers of a failed request.                                       *)
LEMMA KeysHandle ==
  ASSUME KeysInv, Keys!LoopAssumption, NEW t \in Keys!Tasks, Keys!Handle(t)
  PROVE  KeysInv' /\ Keys!NotOlder
<1>1. store' = store /\ loopValue' = loopValue /\ running' = running
  BY DEF Keys!Handle, Keys!TimesOut, Keys!Mends, Keys!GivesUp, Keys!DeletesAgain,
         Keys!StopsDeleting, Keys!localVars
<1>2. t = "stop" => loopPc[t] \in {"idle", "deleting", "remending", "gone", "unable", "timed out"}
  BY DEF KeysInv, KeysTypeOK
<1>3. t = "stop" /\ loopPc[t] # "idle" => ~running
  BY DEF KeysInv, StoppedFirst
<1>4. CASE Keys!TimesOut(t)
  <2>1. CASE loopPc[t] = "putting"
    <3>1. wire' = Keys!Forgotten(t) /\ Keys!Goes(t, "mending") /\ t # "stop"
      BY <1>2, <1>4, <2>1 DEF Keys!TimesOut
    <3>2. QED
      BY <1>1, <3>1, KeysForget DEF Progresses
  <2>2. CASE loopPc[t] = "deleting"
    <3>1. wire' = Keys!Forgotten(t) /\ Keys!Goes(t, "remending") /\ (t = "stop" => ~running)
      BY <1>3, <1>4, <2>2 DEF Keys!TimesOut
    <3>2. QED
      BY <1>1, <3>1, KeysForget DEF Progresses
  <2>3. QED
    BY <1>4, <2>1, <2>2 DEF Keys!TimesOut
<1>5. CASE Keys!Mends(t)
  <2>1. Keys!Goes(t, "idle") /\ UNCHANGED wire /\ t # "stop"
    BY <1>2, <1>5 DEF Keys!Mends
  <2>2. QED
    BY <1>1, <2>1, QuietSteps DEF Progresses
<1>6. CASE Keys!GivesUp(t)
  <2>1. UNCHANGED wire /\ t # "stop" /\ (Keys!Goes(t, "dead") \/ Keys!Goes(t, "idle"))
    BY <1>2, <1>6 DEF Keys!GivesUp
  <2>2. QED
    BY <1>1, <2>1, QuietSteps DEF Progresses
<1>7. CASE Keys!DeletesAgain(t)
  <2>1. wire' = Append(wire, Keys!Delete(t)) /\ Keys!Goes(t, "deleting") /\ (t = "stop" => ~running)
    BY <1>3, <1>7 DEF Keys!DeletesAgain
  <2>2. QED
    BY <1>1, <2>1, KeysDelete
<1>8. CASE Keys!StopsDeleting(t)
  <2>1. UNCHANGED wire /\ Keys!Goes(t, "unable") /\ (t = "stop" => ~running)
    BY <1>3, <1>8 DEF Keys!StopsDeleting
  <2>2. QED
    BY <1>1, <2>1, QuietSteps DEF Progresses
<1>9. QED
  BY <1>4, <1>5, <1>6, <1>7, <1>8 DEF Keys!Handle

(* The server takes what is in front, or the connection loses it.          *)
LEMMA KeysServe ==
  ASSUME KeysInv, Keys!LoopAssumption, Keys!Serves \/ Keys!LosesReply \/ Keys!Loses
  PROVE  KeysInv' /\ Keys!NotOlder
<1>1. /\ wire # <<>> /\ wire' = Tail(wire) /\ loopValue' = loopValue /\ running' = running
      /\ store' \in {store, wire[1].version}
  BY DEF Keys!Serves, Keys!LosesReply, Keys!Loses, Keys!Apply, Keys!localVars
<1>2. /\ wire' \in Seq(Sent) /\ WireInOrder' /\ store' \in Nat
      /\ wire[1].for = "stop" \/ (\A i \in DOMAIN wire : wire[i].op = "delete") =>
           \A i \in DOMAIN wire' : wire'[i].op = "delete"
      /\ wire[1].for = "stop" \/ (\A i \in DOMAIN wire : wire[i].op = "delete") => wire[1].version = 0
      /\ wire[1].version = 0 \/ wire[1].version >= store
  BY <1>1, TailKeeps
<1>3. /\ wire[1] \in Sent /\ (wire[1].for = "stop" => ~running)
  <2>1. wire \in Seq(Sent)
    BY DEF KeysInv, KeysTypeOK
  <2>2. Len(wire) \in Nat /\ Len(wire) > 0
    BY <1>1, <2>1, EmptySeq
  <2>3. 1 \in 1 .. Len(wire)
    BY <2>2
  <2>4. QED
    BY <2>1, <2>3, ElementOfSeq DEF KeysInv, WireInOrder
<1>4. Keys!NotOlder
  <2>1. store \in Nat
    BY DEF KeysInv, KeysTypeOK
  <2>2. CASE store' = store
    BY <2>1, <2>2, StoreStays
  <2>3. CASE store' = wire[1].version
    BY <1>2, <2>3 DEF Keys!NotOlder
  <2>4. QED
    BY <1>1, <2>2, <2>3
<1>5. CASE loopPc' = loopPc
  <2>1. KeysTypeOK'
    BY <1>1, <1>2, <1>5 DEF KeysInv, KeysTypeOK
  <2>2. StoppedFirst'
    BY <1>1, <1>5 DEF KeysInv, StoppedFirst
  <2>3. Keys!CleanAfterStop'
    BY <1>1, <1>2, <1>5 DEF KeysInv, Keys!CleanAfterStop, Keys!Stopper
  <2>4. QED
    BY <1>2, <1>4, <2>1, <2>2, <2>3 DEF KeysInv
<1>6. CASE loopPc' # loopPc
  <2>1. Keys!Serves /\ store' = wire[1].version
    BY <1>6 DEF Keys!Serves, Keys!LosesReply, Keys!Loses, Keys!Apply
  <2>2. PICK t \in Keys!Tasks : t = wire[1].for
    BY <1>6, <2>1 DEF Keys!Serves
  <2>3. PICK p \in {"idle", "gone"} : p = Keys!Returned(t)
    BY DEF Keys!Returned
  <2>4. Keys!Goes(t, p)
    BY <2>1, <2>2, <2>3 DEF Keys!Serves
  <2>5. t = "stop" => p = "gone"
    BY <2>3 DEF Keys!Returned, KeysInv, KeysTypeOK
  <2>6. /\ loopPc' \in [Keys!Tasks -> Progresses]
        /\ loopPc'["stop"] \in {"idle", "deleting", "remending", "gone", "unable", "timed out"}
        /\ loopPc'["stop"] # "idle" => loopPc["stop"] # "idle" \/ t = "stop"
        /\ loopPc'["stop"] = "gone" => loopPc["stop"] = "gone" \/ t = "stop"
    BY <2>4, <2>5, TaskGoes DEF Progresses
  <2>7. KeysTypeOK'
    BY <1>1, <1>2, <2>6 DEF KeysInv, KeysTypeOK, Progresses
  <2>8. StoppedFirst'
    BY <1>1, <1>3, <2>2, <2>6 DEF KeysInv, StoppedFirst
  <2>9. Keys!CleanAfterStop'
    BY <1>2, <2>1, <2>2, <2>6 DEF KeysInv, Keys!CleanAfterStop, Keys!Stopper
  <2>10. QED
    BY <1>2, <1>4, <2>7, <2>8, <2>9 DEF KeysInv
<1>7. QED
  BY <1>5, <1>6

(* stop sends its delete behind all that is on its way, or deletes nothing.*)
LEMMA KeysStop ==
  ASSUME KeysInv, Keys!LoopAssumption, Keys!Stop
  PROVE  KeysInv' /\ Keys!NotOlder
<1>1. /\ store' = store /\ loopValue' = loopValue /\ running' = FALSE
      /\ loopPc["stop"] = "idle" /\ "loop" \in Keys!Tasks /\ "stop" \in Keys!Tasks
  BY DEF Keys!Stop, Keys!Tasks, Keys!Stopper, Keys!Loop
<1>2. /\ loopPc' \in [Keys!Tasks -> Progresses]
      /\ loopPc'["stop"] \in {"deleting", "unable"}
  BY DEF Keys!Stop, Keys!Goes, Keys!Tasks, Keys!Stopper, Keys!Loop, KeysInv, KeysTypeOK, Progresses
<1>3. wire' \in Seq(Sent) /\ WireInOrder'
  <2>1. CASE wire' = wire
    BY <1>1, <2>1 DEF KeysInv, KeysTypeOK, WireInOrder, Puts
  <2>2. CASE wire' = Keys!Forgotten("loop")
    <3>1. running' => running
      BY <1>1
    <3>2. QED
      BY <1>1, <2>2, <3>1, ForgetsKeeps
  <2>3. CASE wire' = Append(Keys!Forgotten("loop"), Keys!Delete("stop"))
    <3>1. PICK f \in Seq(Sent) : f = Keys!Forgotten("loop")
      BY <1>1, Forgets
    <3>2. /\ Len(f) = Len(wire)
          /\ \A i \in 1 .. Len(wire) :
               f[i].op = wire[i].op /\ f[i].version = wire[i].version /\ f[i].for \in {wire[i].for, "nobody"}
      BY <1>1, <3>1, Forgets
    <3>3. PICK m \in Sent : m = Keys!Delete("stop")
      BY <1>1 DEF Keys!Delete, Sent
    <3>4. m.op = "delete" /\ m.version = 0 /\ m.for = "stop"
      BY <3>3 DEF Keys!Delete
    <3>5. wire' = Append(f, m)
      BY <2>3, <3>1, <3>3
    <3>6. /\ wire' \in Seq(Sent) /\ Len(wire') = Len(wire) + 1 /\ wire'[Len(wire) + 1] = m
          /\ \A i \in 1 .. Len(wire) : wire'[i] = f[i]
      <4>1. /\ Append(f, m) \in Seq(Sent) /\ Len(Append(f, m)) = Len(f) + 1
            /\ Append(f, m)[Len(f) + 1] = m
            /\ \A i \in 1 .. Len(f) : Append(f, m)[i] = f[i]
        BY AppendProperties
      <4>2. QED
        BY <3>2, <3>5, <4>1
    <3>7. Len(wire) \in Nat
      BY WireType DEF KeysInv, KeysTypeOK
    <3>8. ASSUME NEW i \in 1 .. Len(wire')
          PROVE  \/ /\ i \in 1 .. Len(wire)
                    /\ wire'[i].op = wire[i].op /\ wire'[i].version = wire[i].version
                    /\ wire'[i].for \in {wire[i].for, "nobody"}
                 \/ /\ i = Len(wire) + 1
                    /\ wire'[i].op = "delete" /\ wire'[i].version = 0 /\ wire'[i].for = "stop"
      <4>1. CASE i \in 1 .. Len(wire)
        <5>1. wire'[i] = f[i]
          BY <3>6, <4>1
        <5>2. QED
          BY <3>2, <4>1, <5>1
      <4>2. CASE i = Len(wire) + 1
        BY <3>4, <3>6, <4>2
      <4>3. QED
        BY <3>6, <3>7, <4>1, <4>2
    <3>9. store' <= loopValue'
      BY <1>1 DEF KeysInv, WireInOrder
    <3>10. ASSUME NEW i \in 1 .. Len(wire')
           PROVE  /\ wire'[i].op = "delete" => wire'[i].version = 0
                  /\ wire'[i].op = "put" => store' <= wire'[i].version /\ wire'[i].version <= loopValue'
                  /\ wire'[i].for = "stop" => ~running' /\ wire'[i].op = "delete"
      <4>1. CASE i \in 1 .. Len(wire) /\ wire'[i].op = wire[i].op /\ wire'[i].version = wire[i].version
                 /\ wire'[i].for \in {wire[i].for, "nobody"}
        BY <1>1, <4>1 DEF KeysInv, WireInOrder, Puts
      <4>2. CASE wire'[i].op = "delete" /\ wire'[i].version = 0 /\ wire'[i].for = "stop"
        BY <1>1, <4>2
      <4>3. QED
        BY <3>8, <4>1, <4>2
    <3>11. ASSUME NEW i \in 1 .. Len(wire'), NEW j \in 1 .. Len(wire'), i < j
           PROVE  /\ wire'[i].op = "put" /\ wire'[j].op = "put" => wire'[i].version <= wire'[j].version
                  /\ wire'[i].for = "stop" => wire'[j].op = "delete"
      <4>1. i \in 1 .. Len(wire)
        BY <3>6, <3>7, <3>11
      <4>2. i # Len(wire) + 1
        BY <3>7, <4>1
      <4>3. /\ wire'[i].op = wire[i].op /\ wire'[i].version = wire[i].version
            /\ wire'[i].for \in {wire[i].for, "nobody"}
        BY <3>8, <4>2
      <4>4. CASE wire'[j].op = "delete"
        BY <4>4
      <4>5. CASE wire'[j].op # "delete"
        <5>1. j \in 1 .. Len(wire) /\ wire'[j].op = wire[j].op /\ wire'[j].version = wire[j].version
          BY <3>8, <4>5
        <5>2. QED
          BY <3>11, <4>1, <4>3, <4>5, <5>1 DEF KeysInv, WireInOrder, Puts
      <4>6. QED
        BY <4>4, <4>5
    <3>12. QED
      BY <3>6, <3>9, <3>10, <3>11 DEF WireInOrder, Puts
  <2>4. QED
    BY <2>1, <2>2, <2>3 DEF Keys!Stop, Keys!Loop, Keys!Stopper
<1>4. KeysTypeOK'
  BY <1>1, <1>2, <1>3 DEF KeysInv, KeysTypeOK, Progresses
<1>5. StoppedFirst' /\ Keys!CleanAfterStop'
  BY <1>1, <1>2 DEF StoppedFirst, Keys!CleanAfterStop, Keys!Stopper
<1>6. Keys!NotOlder
  BY <1>1, StoreStays DEF KeysInv, KeysTypeOK
<1>7. QED
  BY <1>3, <1>4, <1>5, <1>6 DEF KeysInv

(* The value, the connection, the bucket's limit of age, the shutdown.     *)
LEMMA KeysAround ==
  ASSUME KeysInv, Keys!LoopAssumption,
         \/ Keys!Changes \/ Keys!Breaks \/ Keys!Reconnects \/ Keys!Expires \/ Keys!Shutdown \/ Keys!Over
  PROVE  KeysInv' /\ Keys!NotOlder
<1>0. loopPc' = loopPc /\ running' = running
  BY DEF Keys!Changes, Keys!Breaks, Keys!Reconnects, Keys!Expires, Keys!Shutdown, Keys!Over,
         Keys!localVars, Keys!vars
<1>1. wire' = wire /\ loopValue' \in {loopValue, loopValue + 1} /\ store' \in {store, 0}
  BY DEF Keys!Changes, Keys!Breaks, Keys!Reconnects, Keys!Expires, Keys!Shutdown, Keys!Over,
         Keys!localVars, Keys!vars
<1>2. \A i \in 1 .. Len(wire) : wire[i] \in Sent
  BY WireType DEF KeysInv, KeysTypeOK
<1>3. KeysTypeOK'
  <2>1. loopValue \in Nat /\ store \in Nat
    BY DEF KeysInv, KeysTypeOK
  <2>2. loopValue' \in Nat /\ store' \in Nat
    BY <1>1, <2>1
  <2>3. QED
    BY <1>0, <1>1, <2>2 DEF KeysInv, KeysTypeOK
<1>4. \A i \in 1 .. Len(wire) : Puts(i) => store' <= wire[i].version /\ wire[i].version <= loopValue'
  <2>1. loopValue \in Nat /\ store \in Nat
    BY DEF KeysInv, KeysTypeOK
  <2>2. ASSUME NEW i \in 1 .. Len(wire), Puts(i)
        PROVE  store' <= wire[i].version /\ wire[i].version <= loopValue'
    <3>1. wire[i].version \in Nat
      BY <1>2 DEF Sent
    <3>2. store <= wire[i].version /\ wire[i].version <= loopValue
      BY <2>2 DEF KeysInv, WireInOrder
    <3>3. QED
      BY <1>1, <2>1, <3>1, <3>2
  <2>3. QED
    BY <2>2
<1>5. store' <= loopValue'
  <2>1. loopValue \in Nat /\ store \in Nat /\ store <= loopValue
    BY DEF KeysInv, KeysTypeOK, WireInOrder
  <2>2. QED
    BY <1>1, <2>1
<1>6. WireInOrder'
  BY <1>0, <1>1, <1>4, <1>5 DEF KeysInv, WireInOrder, Puts
<1>7. StoppedFirst' /\ Keys!CleanAfterStop'
  BY <1>0, <1>1 DEF KeysInv, StoppedFirst, Keys!CleanAfterStop, Keys!Stopper
<1>8. Keys!NotOlder
  BY <1>1, StoreStays DEF Keys!NotOlder, KeysInv, KeysTypeOK
<1>9. QED
  BY <1>3, <1>6, <1>7, <1>8 DEF KeysInv

LEMMA KeysNext ==
  ASSUME KeysInv, Keys!LoopAssumption, [Keys!Next]_(Keys!vars)
  PROVE  KeysInv' /\ Keys!NotOlder
<1>1. "loop" \in Keys!Tasks /\ "stop" \in Keys!Tasks /\ \A c \in Callers : c \in Keys!Tasks /\ c # "stop"
  BY DEF Keys!Tasks, Keys!Stopper, Keys!Loop, Keys!LoopAssumption
<1>2. CASE \/ Keys!Changes \/ Keys!Breaks \/ Keys!Reconnects \/ Keys!Expires \/ Keys!Shutdown \/ Keys!Over
  BY <1>2, KeysAround
<1>3. CASE Keys!Serves \/ Keys!LosesReply \/ Keys!Loses
  BY <1>3, KeysServe
<1>4. CASE Keys!Stop
  BY <1>4, KeysStop
<1>5. CASE Keys!Interval
  <2>1. running /\ Keys!Updates("loop") /\ "loop" # "stop"
    BY <1>5 DEF Keys!Interval, Keys!Loop
  <2>2. QED
    BY <1>1, <2>1, KeysUpdate
<1>6. CASE Keys!LoopEnds
  <2>1. store' = store /\ loopValue' = loopValue /\ running' = running
    BY <1>6 DEF Keys!LoopEnds, Keys!localVars
  <2>2. CASE wire' = Append(wire, Keys!Delete("loop")) /\ Keys!Goes("loop", "deleting")
    BY <1>1, <2>1, <2>2, KeysDelete
  <2>3. CASE wire' = wire /\ Keys!Goes("loop", "unable")
    BY <1>1, <2>1, <2>3, QuietSteps DEF Progresses
  <2>4. QED
    BY <1>6, <2>2, <2>3 DEF Keys!LoopEnds, Keys!Deletes, Keys!Loop
<1>7. CASE Keys!StopTimesOut
  <2>1. /\ store' = store /\ loopValue' = loopValue /\ running' = running
        /\ wire' = Keys!Forgotten("stop") /\ Keys!Goes("stop", "timed out") /\ loopPc["stop"] # "idle"
    BY <1>7 DEF Keys!StopTimesOut, Keys!localVars, Keys!Stopper
  <2>2. ~running
    BY <2>1 DEF KeysInv, StoppedFirst
  <2>3. QED
    BY <1>1, <2>1, <2>2, KeysForget DEF Progresses
<1>8. CASE \E c \in Callers : Keys!UpdateNow(c) \/ Keys!RefreshConnection(c)
  <2>1. PICK c \in Callers : Keys!UpdateNow(c) \/ Keys!RefreshConnection(c)
    BY <1>8
  <2>2. CASE Keys!UpdateNow(c)
    BY <1>1, <2>2, KeysUpdate DEF Keys!UpdateNow
  <2>3. CASE Keys!RefreshConnection(c)
    <3>1. store' = store /\ loopValue' = loopValue /\ running' = running /\ wire' = wire
      BY <2>3 DEF Keys!RefreshConnection, Keys!localVars
    <3>2. CASE Keys!Goes(c, "mending")
      BY <1>1, <3>1, <3>2, QuietSteps DEF Progresses
    <3>3. CASE loopPc' = loopPc
      <4>1. KeysInv'
        BY <3>1, <3>3 DEF KeysInv, KeysTypeOK, WireInOrder, Puts, StoppedFirst, Keys!CleanAfterStop,
                         Keys!Stopper
      <4>2. QED
        BY <3>1, <4>1, StoreStays DEF KeysInv, KeysTypeOK
    <3>4. QED
      BY <2>3, <3>2, <3>3 DEF Keys!RefreshConnection
  <2>4. QED
    BY <2>1, <2>2, <2>3
<1>9. CASE \E t \in Keys!Tasks : Keys!Handle(t)
  BY <1>9, KeysHandle
<1>10. CASE UNCHANGED Keys!vars
  <2>1. /\ wire' = wire /\ loopPc' = loopPc /\ running' = running
        /\ loopValue' = loopValue /\ store' = store
    BY <1>10 DEF Keys!vars
  <2>2. KeysInv'
    BY <2>1 DEF KeysInv, KeysTypeOK, WireInOrder, Puts, StoppedFirst, Keys!CleanAfterStop, Keys!Stopper
  <2>3. QED
    BY <2>1, <2>2, StoreStays DEF KeysInv, KeysTypeOK
<1>11. QED
  BY <1>2, <1>3, <1>4, <1>5, <1>6, <1>7, <1>8, <1>9, <1>10 DEF Keys!Next

(* CleanAfterStop and PutsNeverGoBack, whatever the number of callers and  *)
(* of outages: once stop has seen its delete served, no put is left that   *)
(* could bring the key back, and a put never replaces a newer value        *)
(* (_stop, _update_values).                                                *)
THEOREM KeysStayClean ==
  ASSUME Keys!LoopAssumption
  PROVE  Keys!Spec => []Keys!CleanAfterStop /\ Keys!PutsNeverGoBack
<1>1. Keys!Init => KeysInv
  BY KeysStart
<1>2. KeysInv /\ [Keys!Next]_(Keys!vars) => KeysInv'
  BY KeysNext
<1>3. KeysInv /\ [Keys!Next]_(Keys!vars) => [Keys!NotOlder]_store
  BY KeysNext
<1>4. KeysInv => Keys!CleanAfterStop
  BY DEF KeysInv
<1>5. QED
  BY <1>1, <1>2, <1>3, <1>4, PTL DEF Keys!Spec, Keys!PutsNeverGoBack

------------------------------------------------------------------------------
(* The kernel of an operator and the queue for its lock, in which nobody   *)
(* stands twice.                                                           *)
InQueue(q) == {q[i] : i \in DOMAIN q}
Once(q) == \A i, j \in DOMAIN q : q[i] = q[j] => i = j

LEMMA QueuesUp ==
  ASSUME NEW S, NEW q \in Seq(S), NEW e \in S
  PROVE  /\ Append(q, e) \in Seq(S)
         /\ InQueue(Append(q, e)) = InQueue(q) \cup {e}
         /\ q # <<>> => Append(q, e) # <<>> /\ Append(q, e)[1] = q[1]
         /\ Once(q) /\ e \notin InQueue(q) => Once(Append(q, e))
<1> DEFINE r == Append(q, e)
<1>1. /\ r \in Seq(S) /\ Len(r) = Len(q) + 1 /\ r[Len(q) + 1] = e
      /\ \A i \in 1 .. Len(q) : r[i] = q[i]
  BY AppendProperties
<1>2. DOMAIN q = 1 .. Len(q) /\ DOMAIN r = 1 .. Len(q) + 1 /\ Len(q) \in Nat
  BY <1>1, LenProperties
<1> HIDE DEF r
<1>3. InQueue(r) = InQueue(q) \cup {e}
  <2>1. ASSUME NEW i \in DOMAIN r PROVE r[i] \in InQueue(q) \cup {e}
    <3>1. CASE i = Len(q) + 1
      BY <1>1, <3>1
    <3>2. CASE i # Len(q) + 1
      <4>1. i \in DOMAIN q
        BY <1>2, <3>2
      <4>2. QED
        BY <1>1, <1>2, <4>1 DEF InQueue
    <3>3. QED
      BY <3>1, <3>2
  <2>2. ASSUME NEW i \in DOMAIN q PROVE q[i] \in InQueue(r)
    <3>1. i \in DOMAIN r /\ r[i] = q[i]
      BY <1>1, <1>2
    <3>2. QED
      BY <3>1 DEF InQueue
  <2>3. e \in InQueue(r)
    <3>1. Len(q) + 1 \in DOMAIN r
      BY <1>2
    <3>2. QED
      BY <1>1, <3>1 DEF InQueue
  <2>4. InQueue(r) \subseteq InQueue(q) \cup {e}
    BY <2>1 DEF InQueue
  <2>5. InQueue(q) \subseteq InQueue(r)
    BY <2>2 DEF InQueue
  <2>6. QED
    BY <2>3, <2>4, <2>5
<1>4. q # <<>> => r # <<>> /\ r[1] = q[1]
  <2>1. ASSUME q # <<>> PROVE 1 \in 1 .. Len(q)
    BY <1>2, <2>1, EmptySeq
  <2>2. Len(r) # 0
    BY <1>1, <1>2
  <2>3. r # <<>>
    BY <2>2, EmptySeq
  <2>4. QED
    BY <1>1, <2>1, <2>3
<1>5. ASSUME Once(q), e \notin InQueue(q) PROVE Once(r)
  <2>1. SUFFICES ASSUME NEW i \in DOMAIN r, NEW j \in DOMAIN r, r[i] = r[j] PROVE i = j
    BY DEF Once
  <2>2. ASSUME NEW k \in DOMAIN r, k # Len(q) + 1 PROVE k \in DOMAIN q /\ r[k] = q[k] /\ q[k] # e
    <3>1. k \in DOMAIN q
      BY <1>2, <2>2
    <3>2. q[k] \in InQueue(q)
      BY <3>1 DEF InQueue
    <3>3. QED
      BY <1>1, <1>2, <1>5, <3>1, <3>2
  <2>3. QED
    BY <1>1, <1>5, <2>1, <2>2 DEF Once
<1>6. QED
  BY <1>1, <1>3, <1>4, <1>5 DEF r

(* r is q without the one at k.                                            *)
IsWithout(r, q, k, n) ==
  /\ DOMAIN q = 1 .. n /\ DOMAIN r = 1 .. n - 1
  /\ \A i \in 1 .. n - 1 : r[i] = IF i < k THEN q[i] ELSE q[i + 1]

LEMMA MovesUp ==
  ASSUME NEW q, NEW r, NEW n \in Nat, NEW k \in 1 .. n,
         IsWithout(r, q, k, n), Once(q)
  PROVE  InQueue(r) = InQueue(q) \ {q[k]} /\ Once(r)
<1>1. ASSUME NEW i \in DOMAIN r
      PROVE  \E j \in DOMAIN q : j # k /\ r[i] = q[j] /\ j = IF i < k THEN i ELSE i + 1
  BY DEF IsWithout
<1>2. ASSUME NEW j \in DOMAIN q, j # k PROVE \E i \in DOMAIN r : r[i] = q[j]
  <2>1. CASE j < k
    BY <1>2, <2>1 DEF IsWithout
  <2>2. CASE k < j
    <3>1. j - 1 \in DOMAIN r /\ r[j - 1] = q[j]
      BY <2>2 DEF IsWithout
    <3>2. QED
      BY <3>1
  <2>3. QED
    BY <1>2, <2>1, <2>2 DEF IsWithout
<1>3. Once(r)
  <2>1. SUFFICES ASSUME NEW i \in DOMAIN r, NEW j \in DOMAIN r, r[i] = r[j] PROVE i = j
    BY DEF Once
  <2>2. PICK a \in DOMAIN q : r[i] = q[a] /\ a = IF i < k THEN i ELSE i + 1
    BY <1>1
  <2>3. PICK b \in DOMAIN q : r[j] = q[b] /\ b = IF j < k THEN j ELSE j + 1
    BY <1>1
  <2>4. a = b
    BY <2>1, <2>2, <2>3 DEF Once
  <2>5. QED
    <3>1. i \in Int /\ j \in Int /\ k \in Int
      BY DEF IsWithout
    <3>2. (IF i < k THEN i ELSE i + 1) = (IF j < k THEN j ELSE j + 1)
      BY <2>2, <2>3, <2>4
    <3>3. QED
      BY <3>1, <3>2
<1>4. InQueue(r) \subseteq InQueue(q) \ {q[k]}
  <2>1. SUFFICES ASSUME NEW i \in DOMAIN r PROVE r[i] \in InQueue(q) /\ r[i] # q[k]
    BY DEF InQueue
  <2>2. PICK a \in DOMAIN q : a # k /\ r[i] = q[a]
    BY <1>1
  <2>3. q[a] # q[k]
    BY <2>2 DEF Once, IsWithout
  <2>4. QED
    BY <2>2, <2>3 DEF InQueue
<1>5. InQueue(q) \ {q[k]} \subseteq InQueue(r)
  <2>1. SUFFICES ASSUME NEW j \in DOMAIN q, q[j] # q[k] PROVE q[j] \in InQueue(r)
    BY DEF InQueue
  <2>2. PICK i \in DOMAIN r : r[i] = q[j]
    BY <1>2, <2>1
  <2>3. QED
    BY <2>2 DEF InQueue
<1>6. QED
  BY <1>3, <1>4, <1>5

LEMMA Leaves ==
  ASSUME NEW S, NEW q \in Seq(S), NEW k \in DOMAIN q, NEW r,
         r = SubSeq(q, 1, k - 1) \o SubSeq(q, k + 1, Len(q))
  PROVE  /\ r \in Seq(S)
         /\ Once(q) => InQueue(r) = InQueue(q) \ {q[k]} /\ Once(r)
<1>0. PICK n \in Nat : n = Len(q)
  BY LenProperties
<1> DEFINE a == SubSeq(q, 1, k - 1)
           b == SubSeq(q, k + 1, n)
<1>1. n \in Nat /\ n = Len(q) /\ DOMAIN q = 1 .. n /\ q \in [1 .. n -> S] /\ k \in 1 .. n
  BY <1>0, LenProperties
<1>a. k \in Int /\ 1 <= k /\ k <= n /\ n \in Int
  BY <1>1
<1>b. DOMAIN q = 1 .. n
  BY <1>1
<1>2. /\ a \in Seq(S) /\ Len(a) = k - 1
      /\ \A i \in 1 .. k - 1 : a[i] = q[i]
  <2>1. \A i \in 1 .. k - 1 : q[i] \in S
    BY <1>1
  <2>2. /\ a \in Seq(S) /\ Len(a) = IF 1 <= k - 1 THEN k - 1 - 1 + 1 ELSE 0
        /\ \A i \in 1 .. k - 1 - 1 + 1 : a[i] = q[1 + i - 1]
    BY <1>1, <2>1, SubSeqProperties
  <2>3. \A i \in 1 .. k - 1 : i \in 1 .. k - 1 - 1 + 1 /\ 1 + i - 1 = i
    BY <1>1
  <2>4. (IF 1 <= k - 1 THEN k - 1 - 1 + 1 ELSE 0) = k - 1
    BY <1>a
  <2> HIDE DEF a
  <2>5. QED
    BY <2>2, <2>3, <2>4
<1>3. /\ b \in Seq(S) /\ Len(b) = n - k
      /\ \A i \in 1 .. n - k : b[i] = q[k + i]
  <2>1. k + 1 \in Int /\ n \in Int /\ \A i \in k + 1 .. n : q[i] \in S
    BY <1>1
  <2>2. /\ b \in Seq(S) /\ Len(b) = IF k + 1 <= n THEN n - (k + 1) + 1 ELSE 0
        /\ \A i \in 1 .. n - (k + 1) + 1 : b[i] = q[k + 1 + i - 1]
    BY <2>1, SubSeqProperties
  <2>3. \A i \in 1 .. n - k : i \in 1 .. n - (k + 1) + 1 /\ k + 1 + i - 1 = k + i
    BY <1>1
  <2>4. (IF k + 1 <= n THEN n - (k + 1) + 1 ELSE 0) = n - k
    BY <1>a
  <2> HIDE DEF b
  <2>5. QED
    BY <2>2, <2>3, <2>4
<1>4. /\ r \in Seq(S) /\ Len(r) = n - 1
      /\ \A i \in 1 .. n - 1 : r[i] = IF i < k THEN q[i] ELSE q[i + 1]
  <2>1. r = a \o b
    BY <1>1 DEF a, b
  <2> HIDE DEF a, b
  <2>2. /\ r \in Seq(S) /\ Len(r) = Len(a) + Len(b)
        /\ \A i \in 1 .. Len(a) + Len(b) : r[i] = IF i <= Len(a) THEN a[i] ELSE b[i - Len(a)]
    <3>1. a \in Seq(S) /\ b \in Seq(S)
      BY <1>2, <1>3
    <3>2. /\ a \o b \in Seq(S) /\ Len(a \o b) = Len(a) + Len(b)
          /\ \A i \in 1 .. Len(a) + Len(b) : (a \o b)[i] = IF i <= Len(a) THEN a[i] ELSE b[i - Len(a)]
      BY <3>1, ConcatProperties
    <3>3. QED
      BY <2>1, <3>2
  <2>3. Len(a) + Len(b) = n - 1
    BY <1>a, <1>2, <1>3
  <2>4. ASSUME NEW i \in 1 .. n - 1 PROVE r[i] = IF i < k THEN q[i] ELSE q[i + 1]
    <3>1. CASE i < k
      <4>1. i \in 1 .. k - 1 /\ i <= Len(a)
        BY <1>1, <1>2, <3>1
      <4>2. QED
        BY <1>2, <2>2, <2>3, <3>1, <4>1
    <3>2. CASE ~(i < k)
      <4>1. i - (k - 1) \in 1 .. n - k /\ ~(i <= Len(a)) /\ k + (i - (k - 1)) = i + 1
        BY <1>1, <1>2, <3>2
      <4>2. r[i] = b[i - (k - 1)]
        BY <1>2, <2>2, <2>3, <4>1
      <4>3. QED
        BY <1>3, <3>2, <4>1, <4>2
    <3>3. QED
      BY <3>1, <3>2
  <2>5. QED
    BY <2>2, <2>3, <2>4
<1> HIDE DEF a, b
<1>5. DOMAIN r = 1 .. n - 1
  BY <1>4, LenProperties
<1>6. IsWithout(r, q, k, n) /\ k \in 1 .. n
  BY <1>1, <1>4, <1>5 DEF IsWithout
<1>7. Once(q) => InQueue(r) = InQueue(q) \ {q[k]} /\ Once(r)
  BY <1>6, MovesUp
<1>8. QED
  BY <1>4, <1>7

LEMMA FirstLeaves ==
  ASSUME NEW S, NEW q \in Seq(S), q # <<>>
  PROVE  /\ Tail(q) \in Seq(S)
         /\ Once(q) => InQueue(Tail(q)) = InQueue(q) \ {q[1]} /\ Once(Tail(q))
<1>1. Len(q) \in Nat \ {0} /\ DOMAIN q = 1 .. Len(q)
  BY EmptySeq, LenProperties
<1>2. 1 \in DOMAIN q
  BY <1>1
<1>3. Tail(q) = SubSeq(q, 2, Len(q)) /\ SubSeq(q, 2, Len(q)) \in Seq(S)
  BY TailIsSubSeq, HeadTailProperties
<1>4. SubSeq(q, 1, 1 - 1) = <<>>
  BY SubSeqEmpty
<1>5. Tail(q) = SubSeq(q, 1, 1 - 1) \o SubSeq(q, 1 + 1, Len(q))
  BY <1>3, <1>4, ConcatEmptySeq
<1>6. QED
  BY <1>2, <1>5, Leaves

(* The kernel belongs to whoever is first in the queue, while the group of *)
(* tasks runs; an error of the main loop is one of the operator's value.   *)
KernelTyped ==
  /\ life \in {"new", "initializing", "connecting", "running", "stopping", "reported",
               "torn down", "silent", "closed", "exited", "failed"}
  /\ kernelLock \in Seq(Process!Tasks) /\ Once(kernelLock)
  /\ InQueue(kernelLock) = {t \in Process!Tasks : kernelPc[t] = "waiting"}
  /\ kernelPc \in [Process!Tasks ->
       {"none", "checking", "receiving", "waiting", "sending", "ended", "refused"}]
  /\ kernels \subseteq Process!Tasks
Before == {"new", "initializing", "connecting", "running"}
HeldKernels == life \in Before => \A t \in kernels : Process!AtTurn(t)
NotYetRun == life \in {"new", "initializing", "connecting"} => kernelPc["run"] = "none"
ErrorsShow ==
  /\ errorState \in BOOLEAN
  /\ errorState => kernelErrors
  /\ errorCount # 0 => errorState
KernelInv == KernelTyped /\ HeldKernels /\ NotYetRun /\ ErrorsShow

(* An async operator: the main loop is over when the group is.             *)
Over == {"stopping", "reported", "torn down", "silent", "closed", "exited"}
LoopIsOver ==
  /\ life \in Over =>
       kernelPc["run"] = "ended" /\ "run" \notin kernels
  /\ life \in {"initializing", "connecting", "running", "stopping", "reported", "failed"} =>
       "dependencies" \in opened

LEMMA KernelNextCases ==
  ASSUME Process!Next
  PROVE  \/ Process!ExecuteDependencies \/ Process!Initialize \/ Process!Run
         \/ Process!StartFails \/ Process!HandleSignal
         \/ Process!Checks \/ Process!Recv \/ Process!KernelFails
         \/ Process!KernelGives \/ Process!KernelGivesNothing \/ Process!Sent
         \/ \E t \in Process!Tasks : Process!BeginsKernel(t) \/ Process!AbandonedReturns(t)
         \/ \E t \in Triggers :
              \/ Process!HandleTriggerRequest(t) \/ Process!TriggerFails(t)
              \/ Process!TriggerGives(t) \/ Process!TriggerGivesNothing(t)
              \/ Process!TriggerSent(t)
         \/ Process!GroupOver
         \/ Process!Reports \/ Process!TearsDown
         \/ Process!StopsMessenger \/ Process!Closes \/ Process!Exits
BY DEF Process!Next, Process!Starting, Process!Loop, Process!Kernel, Process!Trigger,
       Process!Shutdown, Process!EndsGroup, Process!GroupFails

(* Who leaves the queue, who joins it, and what becomes of its head.       *)
LEMMA JoinsQueue ==
  ASSUME KernelTyped, NEW t \in Process!Tasks, kernelPc[t] # "waiting",
         Process!Asks(t), Process!Goes(t, "waiting"), UNCHANGED <<life, kernels>>
  PROVE  KernelTyped' /\ (HeldKernels => HeldKernels')
<1> DEFINE q == kernelLock
<1>1. t \notin InQueue(q) /\ q \in Seq(Process!Tasks) /\ Once(q)
  BY DEF KernelTyped
<1>0. q' = Append(q, t)
  BY DEF Process!Asks
<1>2. /\ q' \in Seq(Process!Tasks) /\ InQueue(q') = InQueue(q) \cup {t}
      /\ q # <<>> => q' # <<>> /\ q'[1] = q[1]
      /\ Once(q')
  BY <1>0, <1>1, QueuesUp
<1>3. InQueue(q') = {u \in Process!Tasks : kernelPc'[u] = "waiting"}
  BY <1>2 DEF KernelTyped, Process!Goes
<1>4. kernelPc' \in [Process!Tasks ->
        {"none", "checking", "receiving", "waiting", "sending", "ended", "refused"}]
  BY DEF KernelTyped, Process!Goes
<1>5. KernelTyped'
  BY <1>2, <1>3, <1>4 DEF KernelTyped
<1>6. ASSUME NEW u, Process!AtTurn(u) PROVE Process!AtTurn(u)'
  BY <1>2, <1>6 DEF Process!AtTurn
<1>7. QED
  BY <1>5, <1>6 DEF HeldKernels

LEMMA ReturnsFromKernel ==
  ASSUME KernelTyped, NEW t \in Process!Tasks, Process!Returns(t),
         NEW p \in {"checking", "sending", "ended"}, Process!Goes(t, p)
  PROVE  KernelTyped' /\ (HeldKernels => HeldKernels')
<1> DEFINE q == kernelLock
<1>1. q # <<>> /\ q[1] = t /\ q' = Tail(q)
  BY DEF Process!Returns, Process!AtTurn
<1>2. q' \in Seq(Process!Tasks) /\ InQueue(q') = InQueue(q) \ {t} /\ Once(q')
  BY <1>1, FirstLeaves DEF KernelTyped
<1>3. InQueue(q') = {u \in Process!Tasks : kernelPc'[u] = "waiting"}
  BY <1>2 DEF KernelTyped, Process!Goes
<1>4. kernelPc' \in [Process!Tasks ->
        {"none", "checking", "receiving", "waiting", "sending", "ended", "refused"}]
  BY DEF KernelTyped, Process!Goes
<1>5. KernelTyped'
  BY <1>2, <1>3, <1>4 DEF KernelTyped, Process!Returns
<1>6. ASSUME NEW u, Process!AtTurn(u), u \in kernels' PROVE FALSE
  BY <1>1, <1>6 DEF Process!AtTurn, Process!Returns
<1>7. QED
  BY <1>5, <1>6 DEF HeldKernels, Process!Returns

(* A step that leaves the queue alone moves only a task that is not in it. *)
LEMMA MovesElsewhere ==
  ASSUME KernelTyped, NEW t \in Process!Tasks, kernelPc[t] # "waiting",
         NEW p \in {"checking", "receiving", "ended", "refused"}, Process!Goes(t, p),
         life' = life \/ (life = "connecting" /\ life' = "running"),
         UNCHANGED <<kernelLock, kernels>>
  PROVE  KernelTyped' /\ (HeldKernels => HeldKernels')
<1>1. {u \in Process!Tasks : kernelPc'[u] = "waiting"}
        = {u \in Process!Tasks : kernelPc[u] = "waiting"}
  BY DEF KernelTyped, Process!Goes
<1>2. kernelPc' \in [Process!Tasks ->
        {"none", "checking", "receiving", "waiting", "sending", "ended", "refused"}]
  BY DEF KernelTyped, Process!Goes
<1>3. KernelTyped'
  BY <1>1, <1>2 DEF KernelTyped
<1>4. QED
  BY <1>3 DEF HeldKernels, Before, Process!AtTurn

LEMMA LeavesQueue ==
  ASSUME KernelTyped, NEW t \in Process!Tasks, kernelLock' = Process!Without(t)
  PROVE  /\ kernelLock' \in Seq(Process!Tasks)
         /\ Once(kernelLock') /\ InQueue(kernelLock') = InQueue(kernelLock) \ {t}
<1>1. CASE \E i \in DOMAIN kernelLock : kernelLock[i] = t
  <2>1. PICK k \in DOMAIN kernelLock : 
          k = (CHOOSE i \in DOMAIN kernelLock : kernelLock[i] = t) /\ kernelLock[k] = t
    BY <1>1
  <2>2. kernelLock' = SubSeq(kernelLock, 1, k - 1) \o SubSeq(kernelLock, k + 1, Len(kernelLock))
    BY <1>1, <2>1 DEF Process!Without, Process!RemoveAt
  <2>3. kernelLock \in Seq(Process!Tasks) /\ Once(kernelLock)
    BY DEF KernelTyped
  <2>4. /\ kernelLock' \in Seq(Process!Tasks)
        /\ Once(kernelLock) =>
             InQueue(kernelLock') = InQueue(kernelLock) \ {kernelLock[k]} /\ Once(kernelLock')
    BY <2>2, <2>3, Leaves
  <2>5. QED
    BY <2>1, <2>3, <2>4
<1>2. CASE ~\E i \in DOMAIN kernelLock : kernelLock[i] = t
  <2>1. t \notin InQueue(kernelLock)
    BY <1>2 DEF InQueue
  <2>2. kernelLock' = kernelLock
    BY <1>2 DEF Process!Without
  <2>3. QED
    BY <2>1, <2>2 DEF KernelTyped
<1>3. QED
  BY <1>1, <1>2

LEMMA OnlyLifeMoves ==
  ASSUME KernelTyped, UNCHANGED <<kernelPc, kernelLock, kernels>>,
         life' \in {"new", "initializing", "connecting", "running", "stopping", "reported",
                    "torn down", "silent", "closed", "exited", "failed"},
         life' \in Before => life \in Before
  PROVE  KernelTyped' /\ (HeldKernels => HeldKernels')
<1>1. KernelTyped'
  BY DEF KernelTyped
<1>2. QED
  BY <1>1 DEF HeldKernels, Process!AtTurn

LEMMA GroupIsOver ==
  ASSUME KernelTyped, Process!GroupOver
  PROVE  KernelTyped' /\ HeldKernels'
<1>1. "run" \in Process!Tasks
  BY DEF Process!Tasks, Process!Main
<1>2. kernelLock' = Process!Without("run") /\ kernelPc' = [kernelPc EXCEPT !["run"] = "ended"]
  BY DEF Process!GroupOver, Process!Main
<1>3. /\ kernelLock' \in Seq(Process!Tasks) /\ Once(kernelLock')
      /\ InQueue(kernelLock') = InQueue(kernelLock) \ {"run"}
  BY <1>1, <1>2, LeavesQueue
<1>4. InQueue(kernelLock') = {u \in Process!Tasks : kernelPc'[u] = "waiting"}
  BY <1>1, <1>2, <1>3 DEF KernelTyped
<1>5. kernelPc' \in [Process!Tasks ->
        {"none", "checking", "receiving", "waiting", "sending", "ended", "refused"}]
  BY <1>2 DEF KernelTyped
<1>6. life' = "stopping" /\ kernels' \subseteq Process!Tasks
  BY DEF Process!GroupOver, KernelTyped
<1>7. QED
  BY <1>3, <1>4, <1>5, <1>6 DEF KernelTyped, HeldKernels, Before

LEMMA ProcessCloses ==
  ASSUME KernelTyped, Process!Closes
  PROVE  KernelTyped' /\ HeldKernels'
<1>1. life' = "closed" /\ kernels' \subseteq Process!Tasks /\ kernelLock' = <<>>
  BY DEF Process!Closes, KernelTyped
<1>2. /\ kernelPc' \in [Process!Tasks ->
           {"none", "checking", "receiving", "waiting", "sending", "ended", "refused"}]
      /\ \A u \in Process!Tasks : kernelPc'[u] # "waiting"
  BY DEF Process!Closes
<1>3. <<>> \in Seq(Process!Tasks) /\ DOMAIN <<>> = {}
  BY EmptySeq, LenProperties
<1>4. Once(<<>>) /\ InQueue(<<>>) = {}
  BY <1>3 DEF Once, InQueue
<1>5. QED
  BY <1>1, <1>2, <1>3, <1>4 DEF KernelTyped, HeldKernels, Before

(* Who has the turn waits for the lock.                                    *)
LEMMA TurnsWait ==
  ASSUME KernelTyped, NEW t \in Process!Tasks, Process!AtTurn(t)
  PROVE  kernelPc[t] = "waiting"
<1>1. 1 \in DOMAIN kernelLock
  <2>1. kernelLock \in Seq(Process!Tasks) /\ kernelLock # <<>>
    BY DEF KernelTyped, Process!AtTurn
  <2>2. Len(kernelLock) \in Nat \ {0} /\ DOMAIN kernelLock = 1 .. Len(kernelLock)
    BY <2>1, EmptySeq, LenProperties
  <2>3. QED
    BY <2>2
<1>2. t \in InQueue(kernelLock)
  BY <1>1 DEF InQueue, Process!AtTurn
<1>3. QED
  BY <1>2 DEF KernelTyped

LEMMA HeldStep ==
  ASSUME KernelTyped, HeldKernels, NotYetRun, Process!OperatorAssumption, Process!Next
  PROVE  KernelTyped' /\ HeldKernels'
<1>0. "run" \in Process!Tasks /\ Triggers \subseteq Process!Tasks
  BY DEF Process!Tasks, Process!Main
<1>1. CASE Process!ExecuteDependencies \/ Process!Initialize
  BY <1>1, OnlyLifeMoves DEF Process!ExecuteDependencies, Process!Initialize, Before
<1>2. CASE Process!Run
  <2>1. life = "connecting" /\ life' = "running" /\ UNCHANGED <<kernelLock, kernels>>
    BY <1>2 DEF Process!Run
  <2>2. CASE UNCHANGED kernelPc
    BY <2>1, <2>2, OnlyLifeMoves DEF Before
  <2>3. CASE Process!Goes("run", "checking")
    <3>1. kernelPc["run"] # "waiting"
      BY <2>1 DEF NotYetRun
    <3>2. QED
      BY <1>0, <2>1, <2>3, <3>1, MovesElsewhere
  <2>4. QED
    BY <1>2, <2>2, <2>3 DEF Process!Run, Process!Main
<1>3. CASE Process!StartFails \/ Process!HandleSignal
  BY <1>3, OnlyLifeMoves DEF Process!StartFails, Process!HandleSignal, Before, KernelTyped
<1>4. CASE Process!Checks
  <2>1. PICK p \in {"ended", "receiving"} : Process!Goes("run", p)
    BY <1>4 DEF Process!Checks, Process!Main
  <2>2. /\ kernelPc["run"] # "waiting" /\ life' = life
        /\ UNCHANGED <<kernelLock, kernels>>
    BY <1>4 DEF Process!Checks, Process!Main
  <2>3. QED
    BY <1>0, <2>1, <2>2, MovesElsewhere
<1>5. CASE Process!Recv
  <2>1. /\ kernelPc["run"] # "waiting" /\ Process!Goes("run", "waiting")
        /\ Process!Asks("run") /\ UNCHANGED <<life, kernels>>
    BY <1>5 DEF Process!Recv, Process!Main
  <2>2. QED
    BY <1>0, <2>1, JoinsQueue
<1>6. CASE Process!KernelFails \/ Process!KernelGives \/ Process!KernelGivesNothing
  <2>1. PICK p \in {"checking", "sending", "ended"} : Process!Goes("run", p)
    BY <1>6 DEF Process!KernelFails, Process!KernelGives, Process!KernelGivesNothing, Process!Main
  <2>2. Process!Returns("run")
    BY <1>6 DEF Process!KernelFails, Process!KernelGives, Process!KernelGivesNothing, Process!Main
  <2>3. QED
    BY <1>0, <2>1, <2>2, ReturnsFromKernel
<1>7. CASE Process!Sent
  <2>1. /\ kernelPc["run"] # "waiting" /\ Process!Goes("run", "checking")
        /\ life' = life /\ UNCHANGED <<kernelLock, kernels>>
    BY <1>7 DEF Process!Sent, Process!Main
  <2>2. QED
    BY <1>0, <2>1, MovesElsewhere
<1>8. ASSUME NEW t \in Process!Tasks, Process!BeginsKernel(t) \/ Process!AbandonedReturns(t)
      PROVE  KernelTyped' /\ HeldKernels'
  <2>1. UNCHANGED <<life, kernelPc, kernelLock>> /\ kernels' \subseteq Process!Tasks
    BY <1>8 DEF Process!BeginsKernel, Process!AbandonedReturns, KernelTyped
  <2>2. KernelTyped'
    BY <2>1 DEF KernelTyped
  <2>3. \A u \in kernels' : u \in kernels \/ Process!AtTurn(u)
    BY <1>8 DEF Process!BeginsKernel, Process!AbandonedReturns
  <2>4. QED
    BY <2>1, <2>2, <2>3 DEF HeldKernels, Process!AtTurn
<1>9. ASSUME NEW t \in Triggers, Process!HandleTriggerRequest(t)
      PROVE  KernelTyped' /\ HeldKernels'
  <2>1. kernelPc[t] # "waiting" /\ UNCHANGED <<life, kernels>>
    BY <1>9 DEF Process!HandleTriggerRequest
  <2>2. CASE Process!Goes(t, "refused") /\ UNCHANGED kernelLock
    BY <1>0, <2>1, <2>2, MovesElsewhere
  <2>3. CASE Process!Goes(t, "ended") /\ UNCHANGED kernelLock
    BY <1>0, <2>1, <2>3, MovesElsewhere
  <2>4. CASE Process!Goes(t, "waiting") /\ Process!Asks(t)
    BY <1>0, <2>1, <2>4, JoinsQueue
  <2>5. QED
    BY <1>9, <2>2, <2>3, <2>4 DEF Process!HandleTriggerRequest
<1>10. ASSUME NEW t \in Triggers,
              Process!TriggerFails(t) \/ Process!TriggerGives(t) \/ Process!TriggerGivesNothing(t)
       PROVE  KernelTyped' /\ HeldKernels'
  <2>1. PICK p \in {"checking", "sending", "ended"} : Process!Goes(t, p)
    BY <1>10 DEF Process!TriggerFails, Process!TriggerGives, Process!TriggerGivesNothing
  <2>2. Process!Returns(t)
    BY <1>10 DEF Process!TriggerFails, Process!TriggerGives, Process!TriggerGivesNothing
  <2>3. QED
    BY <1>0, <2>1, <2>2, ReturnsFromKernel
<1>11. ASSUME NEW t \in Triggers, Process!TriggerSent(t)
       PROVE  KernelTyped' /\ HeldKernels'
  <2>1. kernelPc[t] # "waiting" /\ UNCHANGED <<life, kernels>>
    BY <1>11 DEF Process!TriggerSent
  <2>2. CASE Process!Goes(t, "ended") /\ UNCHANGED kernelLock
    BY <1>0, <2>1, <2>2, MovesElsewhere
  <2>3. CASE Process!Goes(t, "waiting") /\ Process!Asks(t)
    BY <1>0, <2>1, <2>3, JoinsQueue
  <2>4. QED
    BY <1>11, <2>2, <2>3 DEF Process!TriggerSent
<1>12. CASE Process!GroupOver
  BY <1>12, GroupIsOver
<1>13. CASE Process!Reports \/ Process!TearsDown \/ Process!StopsMessenger \/ Process!Exits
  BY <1>13, OnlyLifeMoves
     DEF Process!Reports, Process!TearsDown, Process!StopsMessenger, Process!Exits, Before
<1>14. CASE Process!Closes
  BY <1>14, ProcessCloses
<1>15. QED
  BY <1>1, <1>2, <1>3, <1>4, <1>5, <1>6, <1>7, <1>8, <1>9, <1>10, <1>11, <1>12, <1>13, <1>14,
     KernelNextCases

LEMMA NotYetStep ==
  ASSUME KernelTyped, NotYetRun, Process!OperatorAssumption, Process!Next
  PROVE  NotYetRun'
<1> DEFINE Early == {"new", "initializing", "connecting"}
<1>0. "run" \notin Triggers /\ "run" \in Process!Tasks
  BY DEF Process!OperatorAssumption, Process!Main, Process!Tasks
<1>1. SUFFICES ASSUME life' \in Early PROVE kernelPc'["run"] = "none"
  BY DEF NotYetRun
<1>w. ASSUME Process!AtTurn("run") PROVE kernelPc["run"] = "waiting"
  BY <1>0, <1>w, TurnsWait
<1>2. CASE Process!ExecuteDependencies \/ Process!Initialize \/ Process!HandleSignal
  BY <1>1, <1>2 DEF Process!ExecuteDependencies, Process!Initialize, Process!HandleSignal, NotYetRun
<1>3. CASE Process!Run \/ Process!StartFails \/ Process!Checks \/ Process!GroupOver
           \/ Process!Reports \/ Process!TearsDown \/ Process!StopsMessenger \/ Process!Closes
           \/ Process!Exits
  BY <1>1, <1>3 DEF Process!Run, Process!StartFails, Process!Checks, Process!GroupOver,
     Process!Reports, Process!TearsDown, Process!StopsMessenger, Process!Closes, Process!Exits
<1>4. CASE Process!KernelFails \/ Process!KernelGives \/ Process!KernelGivesNothing
  BY <1>1, <1>4, <1>w DEF Process!KernelFails, Process!KernelGives, Process!KernelGivesNothing,
     Process!Returns, Process!Main, NotYetRun
<1>5. CASE Process!Sent \/ Process!Recv
  BY <1>1, <1>5 DEF Process!Sent, Process!Recv, Process!Main, NotYetRun
<1>6. ASSUME NEW t \in Process!Tasks, Process!BeginsKernel(t) \/ Process!AbandonedReturns(t)
      PROVE  kernelPc'["run"] = "none"
  BY <1>1, <1>6 DEF Process!BeginsKernel, Process!AbandonedReturns, NotYetRun
<1>7. ASSUME NEW t \in Triggers, Process!HandleTriggerRequest(t)
      PROVE  kernelPc'["run"] = "none"
  BY <1>1, <1>7 DEF Process!HandleTriggerRequest
<1>8. ASSUME NEW t \in Triggers,
             \/ Process!TriggerFails(t) \/ Process!TriggerGives(t)
             \/ Process!TriggerGivesNothing(t) \/ Process!TriggerSent(t)
      PROVE  kernelPc'["run"] = "none"
  <2>1. life' = life /\ \E p : Process!Goes(t, p)
    BY <1>8 DEF Process!TriggerFails, Process!TriggerGives, Process!TriggerGivesNothing,
       Process!TriggerSent, Process!Returns
  <2>2. kernelPc'["run"] = kernelPc["run"]
    BY <1>0, <2>1 DEF Process!Goes, KernelTyped
  <2>3. QED
    BY <1>1, <2>1, <2>2 DEF NotYetRun
<1>9. QED
  BY <1>2, <1>3, <1>4, <1>5, <1>6, <1>7, <1>8, KernelNextCases

LEMMA ErrorsStep ==
  ASSUME KernelTyped, ErrorsShow, Process!OperatorAssumption, Process!Next
  PROVE  ErrorsShow'
<1>1. CASE Process!ExecuteDependencies \/ Process!Initialize \/ Process!Run \/ Process!StartFails
           \/ Process!HandleSignal \/ Process!Checks \/ Process!Recv \/ Process!Sent
           \/ Process!GroupOver \/ Process!Reports \/ Process!TearsDown
           \/ Process!StopsMessenger \/ Process!Closes \/ Process!Exits
  <2>1. UNCHANGED <<errorState, errorCount, kernelErrors>>
    BY <1>1 DEF Process!ExecuteDependencies, Process!Initialize, Process!Run, Process!StartFails,
         Process!HandleSignal, Process!Checks, Process!Recv, Process!Sent, Process!GroupOver,
         Process!Reports, Process!TearsDown, Process!StopsMessenger, Process!Closes,
         Process!Exits, Process!loopVars, Process!valVars
  <2>2. QED
    BY <2>1 DEF ErrorsShow
<1>2. CASE Process!KernelFails
  <2>1. errorState' = TRUE /\ kernelErrors' = (kernelErrors \/ ~errorState)
    BY <1>2 DEF Process!KernelFails
  <2>2. kernelErrors'
    BY <2>1 DEF ErrorsShow
  <2>3. QED
    BY <2>1, <2>2 DEF ErrorsShow
<1>3. CASE Process!KernelGives
  BY <1>3 DEF Process!KernelGives, Process!Clears, ErrorsShow
<1>4. CASE Process!KernelGivesNothing
  BY <1>4 DEF Process!KernelGivesNothing, ErrorsShow
<1>5. ASSUME NEW t \in Process!Tasks, Process!BeginsKernel(t) \/ Process!AbandonedReturns(t)
      PROVE  ErrorsShow'
  BY <1>5 DEF Process!BeginsKernel, Process!AbandonedReturns, Process!loopVars, Process!valVars,
     ErrorsShow
<1>6. ASSUME NEW t \in Triggers,
             \/ Process!HandleTriggerRequest(t) \/ Process!TriggerFails(t)
             \/ Process!TriggerGives(t) \/ Process!TriggerGivesNothing(t)
             \/ Process!TriggerSent(t)
      PROVE  ErrorsShow'
  <2>1. UNCHANGED <<errorState, errorCount>> /\ (kernelErrors' = TRUE \/ UNCHANGED kernelErrors)
    BY <1>6 DEF Process!HandleTriggerRequest, Process!TriggerFails, Process!TriggerGives,
       Process!TriggerGivesNothing, Process!TriggerSent, Process!loopVars, Process!valVars
  <2>2. QED
    BY <2>1 DEF ErrorsShow
<1>7. QED
  BY <1>1, <1>2, <1>3, <1>4, <1>5, <1>6, KernelNextCases

LEMMA OverStep ==
  ASSUME KernelTyped, LoopIsOver, Process!OperatorAssumption, IsAsync, Process!Next
  PROVE  LoopIsOver'
<1>0. "run" \notin Triggers /\ "run" \in Process!Tasks
  BY DEF Process!OperatorAssumption, Process!Main, Process!Tasks
<1>w. ASSUME Process!AtTurn("run") PROVE life \notin Over
  <2>1. kernelPc["run"] = "waiting"
    BY <1>0, <1>w, TurnsWait
  <2>2. QED
    BY <2>1 DEF LoopIsOver
<1>1. CASE Process!ExecuteDependencies \/ Process!Initialize \/ Process!Run
  BY <1>1 DEF Process!ExecuteDependencies, Process!Initialize, Process!Run, LoopIsOver, Over
<1>2. CASE Process!StartFails
  BY <1>2 DEF Process!StartFails, LoopIsOver, Over
<1>3. CASE Process!HandleSignal
  BY <1>3 DEF Process!HandleSignal, LoopIsOver
<1>4. CASE Process!Checks \/ Process!Recv
  BY <1>4 DEF Process!Checks, Process!Recv, LoopIsOver, Over
<1>5. CASE Process!KernelFails \/ Process!KernelGives \/ Process!KernelGivesNothing
  <2>1. Process!Returns("run")
    BY <1>5 DEF Process!KernelFails, Process!KernelGives, Process!KernelGivesNothing, Process!Main
  <2>2. life' = life /\ opened' = opened /\ life \notin Over
    BY <1>w, <2>1 DEF Process!Returns
  <2>3. QED
    BY <2>2 DEF LoopIsOver
<1>6. CASE Process!Sent
  <2>1. life \notin Over /\ UNCHANGED <<life, opened>>
    BY <1>6 DEF Process!Sent, Process!Main, LoopIsOver
  <2>2. QED
    BY <2>1 DEF LoopIsOver
<1>7. ASSUME NEW t \in Process!Tasks, Process!BeginsKernel(t) \/ Process!AbandonedReturns(t)
      PROVE  LoopIsOver'
  <2>1. UNCHANGED <<life, kernelPc, opened>>
    BY <1>7 DEF Process!BeginsKernel, Process!AbandonedReturns
  <2>2. ASSUME life \in Over PROVE "run" \notin kernels'
    BY <1>7, <1>w, <2>2 DEF Process!BeginsKernel, Process!AbandonedReturns, LoopIsOver
  <2>3. QED
    BY <2>1, <2>2 DEF LoopIsOver
<1>8. ASSUME NEW t \in Triggers,
             \/ Process!HandleTriggerRequest(t) \/ Process!TriggerFails(t)
             \/ Process!TriggerGives(t) \/ Process!TriggerGivesNothing(t)
             \/ Process!TriggerSent(t)
      PROVE  LoopIsOver'
  <2>1. UNCHANGED <<life, opened>> /\ kernels' \subseteq kernels
    BY <1>8 DEF Process!HandleTriggerRequest, Process!TriggerFails, Process!TriggerGives,
       Process!TriggerGivesNothing, Process!TriggerSent, Process!Returns
  <2>2. \E p : Process!Goes(t, p)
    BY <1>8 DEF Process!HandleTriggerRequest, Process!TriggerFails, Process!TriggerGives,
       Process!TriggerGivesNothing, Process!TriggerSent
  <2>3. kernelPc'["run"] = kernelPc["run"]
    BY <1>0, <2>2 DEF Process!Goes, KernelTyped
  <2>4. QED
    BY <2>1, <2>3 DEF LoopIsOver
<1>9. CASE Process!GroupOver
  <2>1. kernelPc'["run"] = "ended"
    BY <1>0, <1>9 DEF Process!GroupOver, Process!Main, KernelTyped
  <2>2. "run" \notin kernels' /\ life = "running" /\ life' = "stopping" /\ opened' = opened
    BY <1>9 DEF Process!GroupOver, Process!Main
  <2>3. QED
    BY <2>1, <2>2 DEF LoopIsOver, Over
<1>10. CASE Process!Reports \/ Process!TearsDown \/ Process!StopsMessenger \/ Process!Exits
  BY <1>10 DEF Process!Reports, Process!TearsDown, Process!StopsMessenger, Process!Exits,
     LoopIsOver, Over
<1>11. CASE Process!Closes
  <2>1. kernelPc'["run"] = "ended"
    <3>1. kernelPc["run"] = "ended"
      BY <1>11 DEF Process!Closes, LoopIsOver, Over
    <3>2. QED
      BY <1>0, <1>11, <3>1 DEF Process!Closes
  <2>2. kernels' = {} /\ life' = "closed"
    BY <1>11 DEF Process!Closes
  <2>3. QED
    BY <2>1, <2>2 DEF LoopIsOver, Over
<1>12. QED
  BY <1>1, <1>2, <1>3, <1>4, <1>5, <1>6, <1>7, <1>8, <1>9, <1>10, <1>11, KernelNextCases

LEMMA KernelInit ==
  ASSUME Process!OperatorAssumption, Process!Init
  PROVE  KernelInv /\ LoopIsOver
<1>1. <<>> \in Seq(Process!Tasks) /\ DOMAIN <<>> = {}
  BY EmptySeq, LenProperties
<1>2. Once(<<>>) /\ InQueue(<<>>) = {}
  BY <1>1 DEF Once, InQueue
<1>3. KernelTyped
  BY <1>1, <1>2 DEF KernelTyped, Process!Init
<1>4. "run" \in Process!Tasks
  BY DEF Process!Main, Process!Tasks
<1>5. QED
  BY <1>3, <1>4 DEF KernelInv, HeldKernels, NotYetRun, ErrorsShow, LoopIsOver, Over, Process!Init

LEMMA KernelStep ==
  ASSUME Process!OperatorAssumption, KernelInv, [Process!Next]_(Process!vars)
  PROVE  KernelInv' /\ (IsAsync /\ LoopIsOver => LoopIsOver')
<1>1. CASE Process!Next
  BY <1>1, HeldStep, NotYetStep, ErrorsStep, OverStep DEF KernelInv
<1>2. CASE UNCHANGED Process!vars
  <2>1. UNCHANGED <<life, kernelPc, kernelLock, kernels, errorState, errorCount, kernelErrors,
                    opened>>
    BY <1>2 DEF Process!vars
  <2>2. KernelTyped' /\ HeldKernels'
    BY <2>1 DEF KernelInv, KernelTyped, HeldKernels, Process!AtTurn
  <2>3. NotYetRun' /\ ErrorsShow' /\ (LoopIsOver => LoopIsOver')
    BY <2>1 DEF KernelInv, NotYetRun, ErrorsShow, LoopIsOver
  <2>4. QED
    BY <2>2, <2>3 DEF KernelInv
<1>3. QED
  BY <1>1, <1>2

LEMMA KernelsAsPromised ==
  KernelInv => Process!OneKernelWhileRunning /\ Process!FailuresShow
<1> SUFFICES ASSUME KernelInv PROVE Process!OneKernelWhileRunning /\ Process!FailuresShow
  OBVIOUS
<1>1. ASSUME life = "running" PROVE Cardinality(kernels) <= 1
  <2>1. \A x, y \in kernels : x = y
    BY <1>1 DEF KernelInv, HeldKernels, Before, Process!AtTurn
  <2>2. QED
    BY <2>1, AtMostOne
<1>2. Process!OneKernelWhileRunning
  BY <1>1 DEF Process!OneKernelWhileRunning, Process!OneKernel, Process!Cardinality, Cardinality
<1>3. Process!FailuresShow
  BY DEF KernelInv, ErrorsShow, Process!FailuresShow
<1>4. QED
  BY <1>2, <1>3

LEMMA OverAsPromised ==
  KernelTyped /\ LoopIsOver => Process!LoopOverBeforeTeardown
BY DEF KernelTyped, LoopIsOver, Over, Process!LoopOverBeforeTeardown, Process!Main

(* operator.py:724: until its group of tasks ends, the main loop and the   *)
(* requests never run two kernels of an operator at the same time, for any *)
(* requests, failures and retries; and the value of an operator whose loop *)
(* failed last carries an error.                                           *)
THEOREM KernelsTakeTurns ==
  ASSUME Process!OperatorAssumption
  PROVE  Process!Spec => [](Process!OneKernelWhileRunning /\ Process!FailuresShow)
<1>1. Process!Init => KernelInv
  BY KernelInit
<1>2. KernelInv /\ [Process!Next]_(Process!vars) => KernelInv'
  BY KernelStep
<1>3. QED
  BY <1>1, <1>2, KernelsAsPromised, PTL DEF Process!Spec

(* A kernel that can be cancelled no longer runs, nor waits to, when the   *)
(* resources of the dependencies are given back.                           *)
THEOREM KernelsEndBeforeTeardown ==
  ASSUME Process!OperatorAssumption, IsAsync
  PROVE  Process!Spec => []Process!LoopOverBeforeTeardown
<1>1. Process!Init => KernelInv /\ LoopIsOver
  BY KernelInit
<1>2. KernelInv /\ LoopIsOver /\ [Process!Next]_(Process!vars) => (KernelInv /\ LoopIsOver)'
  BY KernelStep
<1>3. KernelInv /\ LoopIsOver => Process!LoopOverBeforeTeardown
  BY OverAsPromised DEF KernelInv
<1>4. QED
  BY <1>1, <1>2, <1>3, PTL DEF Process!Spec
===============================================================================
