-------------------------------- MODULE Accounts --------------------------------
(***************************************************************************)
(* Users of the app: their routes, the login of users of another server,   *)
(* the pipelines they own and the data created at start.  Requests are     *)
(* served by the threads of several workers, each in a transaction at the  *)
(* level read committed.  A request reads who sends it, then checks what   *)
(* it is asked for, then commits: others may commit in between, and what   *)
(* it has read stays in its session.                                       *)
(***************************************************************************)
EXTENDS Naturals, FiniteSets

CONSTANTS
  Ids,          \* ids of users, each given once
  Root, Member, \* a superuser and a user, there from the beginning
  Names, RootName, MemberName, ExternalName,
  Pipelines, Hello,  \* ids of pipelines, and that of the example
  Requests, Kinds,
  MaxStarts,
  Unset, None

AccountsAssumption ==
  /\ {Root, Member} \subseteq Ids /\ Root # Member /\ MaxStarts \in Nat
  /\ {RootName, MemberName, ExternalName} \subseteq Names /\ RootName # MemberName
  /\ Hello \in Pipelines
  /\ None \notin Ids \cup [name : Names, super : BOOLEAN, active : BOOLEAN]

VARIABLES
  users,      \* table: name, superuser and active, or None
  pipelines,  \* table: owner, or None
  used,       \* ids there ever were, of users and of pipelines
  requests,   \* what each request does, and what it has read
  starts

vars == <<users, pipelines, used, requests, starts>>

User(name, super) == [name |-> name, super |-> super, active |-> TRUE]
Fields == {"name", "super", "active"}
Changes ==
  {c \in [name : Names \cup {Unset}, super : BOOLEAN \cup {Unset}, active : BOOLEAN \cup {Unset}] :
     Cardinality({f \in Fields : c[f] # Unset}) = 1}

Present == {u \in Ids : users[u] # None}
Taken(name) == \E u \in Present : users[u].name = name
TakenByOther(name, u) == \E v \in Present \ {u} : users[v].name = name

NewRequest(pc, kind, u, target, change) ==
  [pc |-> pc, kind |-> kind, user |-> u, target |-> target, change |-> change, read |-> None]
Goes(r, pc) == requests' = [requests EXCEPT ![r].pc = pc]
Is(r, pc, kinds) == requests[r].pc = pc /\ requests[r].kind \in kinds
NoChange == [f \in Fields |-> Unset]

Init ==
  /\ users = [u \in Ids |-> IF u = Root THEN User(RootName, TRUE)
                            ELSE IF u = Member THEN User(MemberName, FALSE) ELSE None]
  /\ pipelines = [p \in Pipelines |-> IF p = Hello THEN Root ELSE None]
  /\ used = {Root, Member, Hello}
  /\ requests = [r \in Requests |-> NewRequest("new", None, None, None, NoChange)]
  /\ starts = 0

AsksOf(kind) ==
  CASE kind = "create" -> {None} \X [name : Names, super : BOOLEAN, active : {Unset}]
    [] kind = "rename" -> {None} \X [name : Names, super : {Unset}, active : {Unset}]
    [] kind = "update" -> (used \cap Ids) \X Changes
    [] kind = "remove" -> (used \cap Ids) \X {NoChange}
    [] OTHER -> {None} \X {NoChange}

(* get_current_user and get_current_active_superuser.                      *)
Authenticates(r) ==
  /\ requests[r].pc = "new"
  /\ \E kind \in Kinds \ {"external"}, u \in used \cap Ids : \E ask \in AsksOf(kind) :
       LET q == NewRequest("refused", kind, u, ask[1], ask[2])
       IN requests' = [requests EXCEPT ![r] =
            IF users[u] # None /\ users[u].active
                 /\ (kind \in {"create", "update", "remove"} => users[u].super)
            THEN [q EXCEPT !.pc = "known", !.read = users[u],
                           !.target = IF kind \in {"rename", "leave", "pipeline"} THEN u ELSE @]
            ELSE q]
  /\ UNCHANGED <<users, pipelines, used, starts>>

ChecksCreate(r) ==
  /\ Is(r, "known", {"create"})
  /\ Goes(r, IF Taken(requests[r].change.name) THEN "refused" ELSE "checked")
  /\ UNCHANGED <<users, pipelines, used, starts>>

(* The target is read now, unless it is the user who asks: the session has *)
(* that one already.                                                       *)
ChecksUpdate(r) ==
  /\ Is(r, "known", {"rename", "update"})
  /\ LET q == requests[r]
         row == IF q.target = q.user THEN q.read ELSE users[q.target]
     IN requests' = [requests EXCEPT
          ![r].read = row,
          ![r].pc = IF row = None \/ TakenByOther(q.change.name, q.target)
                    THEN "refused" ELSE "checked"]
  /\ UNCHANGED <<users, pipelines, used, starts>>

ChecksDelete(r) ==
  /\ Is(r, "known", {"leave", "remove"})
  /\ LET q == requests[r] IN
       Goes(r, IF \/ q.kind = "leave" /\ q.read.super
                  \/ q.kind = "remove" /\ (q.target = q.user \/ users[q.target] = None)
               THEN "refused" ELSE "checked")
  /\ UNCHANGED <<users, pipelines, used, starts>>

(* login_with_external_token: an account is made at the first login.       *)
ExternalLogin(r) ==
  /\ requests[r].pc = "new" /\ "external" \in Kinds
  /\ LET q == NewRequest("checked", "external", None, None, [NoChange EXCEPT !.name = ExternalName])
         account == {u \in Present : users[u].name = ExternalName}
     IN requests' = [requests EXCEPT ![r] =
          IF account = {} THEN q
          ELSE [q EXCEPT !.pc = IF \A u \in account : users[u].active THEN "ok" ELSE "refused"]]
  /\ UNCHANGED <<users, pipelines, used, starts>>

(* crud.create_user.  The index on names is the last to decide.            *)
Inserts(r) ==
  /\ Is(r, "checked", {"create", "external"})
  /\ LET asked == requests[r].change IN
       IF Taken(asked.name)
       THEN Goes(r, "failed") /\ UNCHANGED <<users, used>>
       ELSE \E u \in Ids \ used :
              /\ users' = [users EXCEPT ![u] = User(asked.name, asked.super = TRUE)]
              /\ used' = used \cup {u} /\ Goes(r, "ok")
  /\ UNCHANGED <<pipelines, starts>>

(* Only the columns that differ from what was read are written.            *)
Changed(row, read, c) ==
  [f \in Fields |-> IF c[f] # Unset /\ c[f] # read[f] THEN c[f] ELSE row[f]]

(* update_user_me and crud.update_user.  A row that is gone fails the      *)
(* update, or the refresh when there is nothing to update.                 *)
Updates(r) ==
  /\ Is(r, "checked", {"rename", "update"})
  /\ LET q == requests[r] IN
       IF \/ users[q.target] = None
          \/ q.change.name # q.read.name /\ TakenByOther(q.change.name, q.target)
       THEN Goes(r, "failed") /\ UNCHANGED users
       ELSE /\ users' = [users EXCEPT ![q.target] = Changed(@, q.read, q.change)]
            /\ Goes(r, "ok")
  /\ UNCHANGED <<pipelines, used, starts>>

(* Mutant of Deletes: the pipelines stay without their owner.              *)
DeletesUser(r) ==
  /\ Is(r, "checked", {"leave", "remove"})
  /\ users' = [users EXCEPT ![requests[r].target] = None]
  /\ Goes(r, "ok")
  /\ UNCHANGED <<pipelines, used, starts>>

(* The user and the pipelines, those committed since the check included.   *)
Deletes(r) ==
  /\ Is(r, "checked", {"leave", "remove"})
  /\ LET u == requests[r].target IN
       /\ pipelines' = [p \in Pipelines |-> IF pipelines[p] = u THEN None ELSE pipelines[p]]
       /\ users' = [users EXCEPT ![u] = None]
  /\ Goes(r, "ok")
  /\ UNCHANGED <<used, starts>>

(* create_pipeline: the owner is a foreign key.                            *)
CreatesPipeline(r) ==
  /\ Is(r, "known", {"pipeline"})
  /\ LET u == requests[r].user IN
       IF users[u] = None
       THEN Goes(r, "failed") /\ UNCHANGED <<pipelines, used>>
       ELSE \E p \in Pipelines \ used :
              /\ pipelines' = [pipelines EXCEPT ![p] = u]
              /\ used' = used \cup {p} /\ Goes(r, "ok")
  /\ UNCHANGED <<users, starts>>

(* init_db, before the app starts: whoever has the first superuser's name  *)
(* owns the example, which is made again when it was deleted.              *)
Starts ==
  /\ starts < MaxStarts /\ \A r \in Requests : requests[r].pc \notin {"known", "checked"}
  /\ \E u \in Ids :
       /\ IF Taken(RootName)
            THEN u \in Present /\ users[u].name = RootName /\ UNCHANGED <<users, used>>
            ELSE /\ u \notin used
                 /\ users' = [users EXCEPT ![u] = User(RootName, TRUE)]
                 /\ used' = used \cup {u}
       /\ pipelines' = [pipelines EXCEPT ![Hello] = IF @ = None THEN u ELSE @]
  /\ starts' = starts + 1
  /\ UNCHANGED requests

Serves(r) ==
  \/ ChecksCreate(r) \/ ChecksUpdate(r) \/ ChecksDelete(r)
  \/ Inserts(r) \/ Updates(r) \/ Deletes(r) \/ CreatesPipeline(r)

Next ==
  \/ Starts
  \/ \E r \in Requests : Authenticates(r) \/ ExternalLogin(r) \/ Serves(r)

Spec == Init /\ [][Next]_vars

AccountsTypeOK ==
  /\ \A u \in Present : users[u] \in [name : Names, super : BOOLEAN, active : BOOLEAN]
  /\ Present \subseteq used
  /\ \A p \in Pipelines : pipelines[p] \in Ids \cup {None} /\ (pipelines[p] # None => p \in used)

(* Every pipeline has an owner, also the one that is created while its     *)
(* owner is being deleted.                                                 *)
OwnersExist == \A p \in Pipelines : pipelines[p] # None => pipelines[p] \in Present

(* No two users have one name, although requests for it were checked at    *)
(* the same time and the name may come from another server.                *)
NamesApart == \A u, v \in Present : users[u].name = users[v].name => u = v

(* A field of a user changes only by a request that asked for that value   *)
(* and is answered so: two requests do not undo each other's changes.      *)
ChangesAsAsked ==
  \A u \in Ids, f \in Fields :
    users[u] # None /\ users'[u] # None /\ users'[u] # users[u] =>
      \/ users'[u][f] = users[u][f]
      \/ \E r \in Requests :
           /\ requests[r].target = u /\ requests[r].change[f] = users'[u][f]
           /\ requests[r].pc # "ok" /\ requests'[r].pc = "ok"

ChangedAsAsked == [][ChangesAsAsked]_vars

(* "Super users are not allowed to delete themselves".                     *)
(* Promised and not kept: see the README, further divergences.             *)
SuperusersStay ==
  [][\A r \in Requests : Is(r, "checked", {"leave"}) /\ requests'[r].pc = "ok" =>
       users[requests[r].target] = None \/ ~ users[requests[r].target].super]_vars

(* A user with a valid token of the other server is let in: no login fails *)
(* to create an account that exists.                                       *)
(* Promised and not kept: see the README, further divergences.             *)
ExternalsEnter ==
  \A r \in Requests : requests[r].kind = "external" => requests[r].pc # "failed"
===============================================================================
