------------------------------- MODULE Account -------------------------------
(***************************************************************************)
(* One Kakao user's account: signing in, the company profile, uploads and  *)
(* what the analysis fills in, bookmarks, and the withdrawal that erases   *)
(* all of it (auth_service, company_service, business_plan_service,        *)
(* bookmark_service and their repositories).                               *)
(*                                                                         *)
(* A request reads, awaits and writes in one transaction; requests of the  *)
(* same user may be in flight at once.  The ORM writes the columns that    *)
(* differ from what the request has read, and no others.  Rows belong to   *)
(* the user or not at all: nothing in the database keeps him to one        *)
(* profile, and rows can be inserted for a user that has withdrawn.        *)
(***************************************************************************)
EXTENDS Integers, FiniteSets

CONSTANTS
    None,
    Slot,          \* requests, and the background task, in flight
    Edit,          \* bodies of PUT /company-profile/me: columns to values
    Says,          \* what the analysis of a plan says of the company
    MaxRequests    \* bound on requests

\* CompanyProfileUpdate takes no size and no confirmation from the user, and
\* _autofill_fields fills no stage, industry or revenue.
ASSUME BodiesAssumption ==
    /\ None \notin Nat
    /\ \A edit \in Edit :
          DOMAIN edit \subseteq {"type", "stage", "founded", "industry", "revenue", "region"}
    /\ \A says \in Says : DOMAIN says \subseteq {"type", "founded", "region"}

VARIABLES
    user,          \* the row of user: status, and whether it holds an email
    linked,        \* Kakao: the user has connected the app
    profiles,      \* company_profile by id, all primary
    plans,         \* business_plan by id: its profile
    files,         \* stored files, by the plan they were saved for
    bookmarks,     \* the plan that the notice was recommended for, or None
    slot,
    requests,      \* requests so far; what a request inserts has its number
    overlaps       \* history: "erase" if a withdrawal was, "edit" if other
                   \* requests were in flight at the same time

vars == <<user, linked, profiles, plans, files, bookmarks, slot, requests, overlaps>>

-----------------------------------------------------------------------------
Idle == [kind |-> "idle"]

Blank == [type |-> None, stage |-> None, founded |-> None, industry |-> None,
          revenue |-> None, size |-> None, region |-> None, confirmed |-> None]

Columns == DOMAIN Blank

\* get_primary_by_user: LIMIT 1 in no order, or None.
Primary == IF profiles = <<>> THEN {None} ELSE DOMAIN profiles

RowOf(id) == IF id = None THEN Blank ELSE profiles[id]

\* What is stored by a request that has read `read` and sets `fields`.
Written(fields, read, row) ==
    [c \in Columns |-> IF c \in DOMAIN fields /\ fields[c] # read[c] THEN fields[c] ELSE row[c]]

LatestPlan == IF plans = <<>> THEN 0 ELSE CHOOSE p \in DOMAIN plans : \A q \in DOMAIN plans : q <= p

With(f, id, row) == [x \in DOMAIN f \cup {id} |-> IF x = id THEN row ELSE f[x]]
Without(f, S) == [x \in DOMAIN f \ S |-> f[x]]

\* A request arrives; get_current_user lets it pass.
Arrive(s, kind) ==
    /\ slot[s] = Idle
    /\ requests < MaxRequests
    /\ requests' = requests + 1
    /\ LET others == {slot[o].kind : o \in Slot \ {s}} \ {"idle"}
       IN  overlaps' = overlaps
               \cup (IF others # {} /\ "withdraw" \in others \cup {kind} THEN {"erase"} ELSE {})
               \cup (IF others \ {"withdraw"} # {} /\ kind # "withdraw" THEN {"edit"} ELSE {})

Authenticated == user.status = "ACTIVE"

Goto(s, record) == slot' = [slot EXCEPT ![s] = record]
End(s) == Goto(s, Idle)

Init ==
    /\ user \in [status : {"none", "ACTIVE", "BLOCKED"}, email : {FALSE}]
    /\ linked = (user.status # "none")
    /\ profiles = <<>> /\ plans = <<>> /\ files = {} /\ bookmarks = {}
    /\ slot = [s \in Slot |-> Idle]
    /\ requests = 0 /\ overlaps = {}

-----------------------------------------------------------------------------
\* Signing in.

\* The user agrees at Kakao, to hand over an email or not, and comes back with
\* a code.
StartLogin(s) ==
    /\ Arrive(s, "login")
    /\ linked' = TRUE
    /\ \E email \in BOOLEAN : Goto(s, [kind |-> "login", step |-> "code", email |-> email])
    /\ UNCHANGED <<user, profiles, plans, files, bookmarks>>

\* Mutant: the sign-in reads the row of user without a lock on it.
NobodyLocksUser == FALSE

\* An upsert holds the row of user to its commit.
UserLocked == \E s \in Slot : slot[s].kind = "login" /\ slot[s].step = "upserted"

\* upsert_on_login, and the row as it is then.
Upsert(s) ==
    /\ slot[s].kind = "login" /\ slot[s].step = "code"
    /\ ~UserLocked
    /\ Goto(s, IF user.status = "BLOCKED" THEN Idle
               ELSE [kind |-> "login", step |-> "upserted", email |-> slot[s].email,
                     status |-> user.status])
    /\ UNCHANGED <<user, linked, profiles, plans, files, bookmarks, requests, overlaps>>

\* A withdrawn user joins again (reactivate); the tokens are made.
CommitLogin(s) ==
    /\ slot[s].kind = "login" /\ slot[s].step = "upserted"
    /\ user' = [status |-> IF slot[s].status \in {"WITHDRAWN", "none"} THEN "ACTIVE" ELSE user.status,
                email  |-> slot[s].email \/ user.email]
    /\ Goto(s, [kind |-> "login", step |-> "tokens"])
    /\ UNCHANGED <<linked, profiles, plans, files, bookmarks, requests, overlaps>>

SignedIn(s) ==
    /\ slot[s].kind = "login" /\ slot[s].step = "tokens"
    /\ End(s)
    /\ UNCHANGED <<user, linked, profiles, plans, files, bookmarks, requests, overlaps>>

-----------------------------------------------------------------------------
\* The company profile.

\* derive_company_size, in units of 100 million won.
Ceiling(industry) == IF industry = "lodging" THEN 400 ELSE 1000
DeriveSize(industry, revenue) ==
    IF revenue = None THEN None
    ELSE IF revenue <= Ceiling(industry) THEN "SME" ELSE "larger"

\* _PRE_FOUNDER_ONLY_FIELDS
History == {"founded", "revenue", "stage"}

\* What the request sets, and the rest as it is.
Merged(fields, row) ==
    [c \in DOMAIN fields \cup DOMAIN row |-> IF c \in DOMAIN fields THEN fields[c] ELSE row[c]]

\* _apply_pre_founder_transition
Cleaned(edit) ==
    IF "type" \in DOMAIN edit /\ edit.type = "prestartup"
    THEN Merged([c \in History |-> None], edit) ELSE edit

\* Mutant: the size is derived from the request alone.
SizedByRequest(fields, row) ==
    Merged([size |-> DeriveSize(Merged(fields, Blank).industry, Merged(fields, Blank).revenue)],
           fields)

\* _derive_and_set_company_size
Sized(fields, row) ==
    Merged([size |-> DeriveSize(Merged(fields, row).industry, Merged(fields, row).revenue)], fields)

\* CompanyProfileUpdate: a body that contradicts itself is answered 422.
Acceptable(edit) ==
    ~({"type", "stage"} \subseteq DOMAIN edit /\ edit.type = "prestartup" /\ edit.stage # None)

\* _validate_stage_consistency
Consistent(row) == row.type = "prestartup" => row.stage = None

\* save_my_profile: an inconsistent request is refused.
ReadForSave(s) ==
    /\ Authenticated
    /\ Arrive(s, "save")
    /\ \E edit \in Edit, id \in Primary :
          IF Acceptable(edit) /\ Consistent(Merged(Cleaned(edit), RowOf(id)))
          THEN Goto(s, [kind |-> "save", id |-> id, new |-> requests + 1, read |-> RowOf(id),
                        fields |-> Sized(Cleaned(edit), RowOf(id))])
          ELSE UNCHANGED slot
    /\ UNCHANGED <<user, linked, profiles, plans, files, bookmarks>>

\* upsert_primary selects again; a row that the request has read before keeps
\* the values it had then.
CommitSave(s) ==
    /\ slot[s].kind = "save"
    /\ \E id \in Primary :
          profiles' =
              IF id = None THEN With(profiles, slot[s].new, Merged(slot[s].fields, Blank))
              ELSE LET read == IF id = slot[s].id THEN slot[s].read ELSE profiles[id]
                   IN  [profiles EXCEPT ![id] = Written(slot[s].fields, read, @)]
    /\ End(s)
    /\ UNCHANGED <<user, linked, plans, files, bookmarks, requests, overlaps>>

\* confirm_matching_profile: refused while region or type is missing.  The
\* time of confirmation is kept as the latest plan at that time.
ReadForConfirm(s) ==
    /\ Authenticated
    /\ Arrive(s, "confirm")
    /\ \E id \in Primary :
          IF RowOf(id).region # None /\ RowOf(id).type # None
          THEN Goto(s, [kind |-> "confirm", id |-> id]) ELSE UNCHANGED slot
    /\ UNCHANGED <<user, linked, profiles, plans, files, bookmarks>>

CommitConfirm(s) ==
    /\ slot[s].kind = "confirm" /\ slot[s].id \in DOMAIN profiles
    /\ profiles' = [profiles EXCEPT ![slot[s].id].confirmed = LatestPlan]
    /\ End(s)
    /\ UNCHANGED <<user, linked, plans, files, bookmarks, requests, overlaps>>

-----------------------------------------------------------------------------
\* Business plans.

\* upload_business_plan: a user without a profile gets an empty one, with the
\* plan; otherwise the confirmation is taken back.
ReadForUpload(s) ==
    /\ Authenticated
    /\ Arrive(s, "upload")
    /\ \E id \in Primary :
          Goto(s, [kind |-> "upload", step |-> "read", plan |-> requests + 1, id |-> id,
                   reset |-> RowOf(id).confirmed # None])
    /\ UNCHANGED <<user, linked, profiles, plans, files, bookmarks>>

SaveFile(s) ==
    /\ slot[s].kind = "upload" /\ slot[s].step = "read"
    /\ files' = files \cup {slot[s].plan}
    /\ Goto(s, [slot[s] EXCEPT !.step = "saved"])
    /\ UNCHANGED <<user, linked, profiles, plans, bookmarks, requests, overlaps>>

CommitUpload(s) ==
    LET u == slot[s] IN
    /\ u.kind = "upload" /\ u.step = "saved"
    /\ u.id = None \/ u.id \in DOMAIN profiles
    /\ profiles' = IF u.id = None THEN With(profiles, u.plan, Blank)
                   ELSE [profiles EXCEPT ![u.id].confirmed = IF u.reset THEN None ELSE @]
    /\ plans' = With(plans, u.plan, IF u.id = None THEN u.plan ELSE u.id)
    /\ End(s)
    /\ UNCHANGED <<user, linked, files, bookmarks, requests, overlaps>>

\* _autofill_fields: empty columns only, and no prestartup with a history.
Filled(says, row) ==
    LET found == {c \in DOMAIN says : row[c] = None /\ says[c] # None}
        older == "founded" \in found \/ \E c \in History : row[c] # None
    IN  [c \in IF older /\ says.type = "prestartup" THEN found \ {"type"} ELSE found |-> says[c]]

\* The analysis of a plan is done (run_analysis): no request of the user's.
ReadForAutofill(s) ==
    /\ Arrive(s, "autofill")
    /\ \E p \in DOMAIN plans, says \in Says :
          Goto(s, [kind |-> "autofill", id |-> plans[p], read |-> profiles[plans[p]],
                   fields |-> Filled(says, profiles[plans[p]])])
    /\ UNCHANGED <<user, linked, profiles, plans, files, bookmarks>>

CommitAutofill(s) ==
    /\ slot[s].kind = "autofill" /\ slot[s].id \in DOMAIN profiles
    /\ profiles' = [profiles EXCEPT ![slot[s].id] = Written(slot[s].fields, slot[s].read, @)]
    /\ End(s)
    /\ UNCHANGED <<user, linked, plans, files, bookmarks, requests, overlaps>>

-----------------------------------------------------------------------------
\* Bookmarks of a notice that is recommended for a plan, or that the user came
\* across.

ReadForBookmark(s) ==
    /\ Authenticated
    /\ Arrive(s, "bookmark")
    /\ \E p \in DOMAIN plans \cup {None} : Goto(s, [kind |-> "bookmark", plan |-> p])
    /\ UNCHANGED <<user, linked, profiles, plans, files, bookmarks>>

\* on_conflict_do_nothing; the plan is a foreign key.
AddBookmark(s) ==
    /\ slot[s].kind = "bookmark" /\ slot[s].plan \in DOMAIN plans \cup {None}
    /\ bookmarks' = bookmarks \cup {slot[s].plan}
    /\ End(s)
    /\ UNCHANGED <<user, linked, profiles, plans, files, requests, overlaps>>

RemoveBookmark(s) ==
    /\ Authenticated
    /\ Arrive(s, "unbookmark")
    /\ \E p \in bookmarks : bookmarks' = bookmarks \ {p}
    /\ UNCHANGED <<user, linked, profiles, plans, files, slot>>

-----------------------------------------------------------------------------
\* Withdrawal.

StartWithdrawal(s) ==
    /\ Authenticated
    /\ Arrive(s, "withdraw")
    /\ Goto(s, [kind |-> "withdraw", step |-> "unlink", email |-> user.email])
    /\ UNCHANGED <<user, linked, profiles, plans, files, bookmarks>>

\* Kakao first.  Whoever is not connected cannot be disconnected: the request
\* fails with 502.
Unlink(s) ==
    /\ slot[s].kind = "withdraw" /\ slot[s].step = "unlink"
    /\ IF linked THEN Goto(s, [slot[s] EXCEPT !.step = "list"]) ELSE End(s)
    /\ linked' = FALSE
    /\ UNCHANGED <<user, profiles, plans, files, bookmarks, requests, overlaps>>

\* Mutant: bookmarks are forgotten.
ListAllButBookmarks(s) ==
    /\ slot[s].kind = "withdraw" /\ slot[s].step = "list"
    /\ Goto(s, [kind |-> "withdraw", step |-> "erase", email |-> slot[s].email,
                profiles |-> DOMAIN profiles, plans |-> DOMAIN plans, bookmarks |-> {}])
    /\ UNCHANGED <<user, linked, profiles, plans, files, bookmarks, requests, overlaps>>

\* Mutant: only the primary profile that requests work with.
ListPrimary(s) ==
    /\ slot[s].kind = "withdraw" /\ slot[s].step = "list"
    /\ \E id \in Primary :
          Goto(s, [kind |-> "withdraw", step |-> "erase", email |-> slot[s].email,
                   profiles |-> {id} \ {None}, plans |-> {p \in DOMAIN plans : plans[p] = id},
                   bookmarks |-> bookmarks])
    /\ UNCHANGED <<user, linked, profiles, plans, files, bookmarks, requests, overlaps>>

\* delete_owned_data lists what there is, and deletes the bookmarks.
List(s) ==
    /\ slot[s].kind = "withdraw" /\ slot[s].step = "list"
    /\ Goto(s, [kind |-> "withdraw", step |-> "erase", email |-> slot[s].email,
                profiles |-> DOMAIN profiles, plans |-> DOMAIN plans, bookmarks |-> bookmarks])
    /\ UNCHANGED <<user, linked, profiles, plans, files, bookmarks, requests, overlaps>>

\* A row that came after the list and refers to what is on it.
Dangling(w) ==
    \/ \E p \in DOMAIN plans \ w.plans : plans[p] \in w.profiles
    \/ \E p \in bookmarks \ w.bookmarks : p \in w.plans

\* Mutant: the files go before the commit.
EraseFilesFirst(s) ==
    LET w == slot[s] IN
    /\ w.kind = "withdraw" /\ w.step = "erase"
    /\ ~UserLocked
    /\ files' = files \ w.plans
    /\ IF Dangling(w) THEN End(s) /\ UNCHANGED <<user, profiles, plans, bookmarks>>
       ELSE /\ profiles' = Without(profiles, w.profiles)
            /\ plans' = Without(plans, w.plans)
            /\ bookmarks' = bookmarks \ w.bookmarks
            /\ user' = [status |-> "WITHDRAWN", email |-> IF w.email THEN FALSE ELSE user.email]
            /\ Goto(s, [kind |-> "withdraw", step |-> "files", plans |-> w.plans])
    /\ UNCHANGED <<linked, requests, overlaps>>

\* Children before parents, then the row of user, in one transaction, which a
\* foreign key may abort.  An email that was not there when the request began
\* is not overwritten.
Erase(s) ==
    LET w == slot[s] IN
    /\ w.kind = "withdraw" /\ w.step = "erase"
    /\ ~UserLocked
    /\ IF Dangling(w) THEN End(s) /\ UNCHANGED <<user, profiles, plans, bookmarks>>
       ELSE /\ profiles' = Without(profiles, w.profiles)
            /\ plans' = Without(plans, w.plans)
            /\ bookmarks' = bookmarks \ w.bookmarks
            /\ user' = [status |-> "WITHDRAWN", email |-> IF w.email THEN FALSE ELSE user.email]
            /\ Goto(s, [kind |-> "withdraw", step |-> "files", plans |-> w.plans])
    /\ UNCHANGED <<linked, files, requests, overlaps>>

\* A file that cannot be deleted is left.
DeleteFiles(s) ==
    /\ slot[s].kind = "withdraw" /\ slot[s].step = "files"
    /\ files' \in {files, files \ slot[s].plans}
    /\ End(s)
    /\ UNCHANGED <<user, linked, profiles, plans, bookmarks, requests, overlaps>>

-----------------------------------------------------------------------------
\* Kakao, the disk or the database fails a request, or what it has read is
\* gone: its transaction is rolled back and a file it has saved is deleted.
Fail(s) ==
    /\ slot[s] # Idle
    /\ files' = IF slot[s].kind = "upload" THEN files \ {slot[s].plan} ELSE files
    /\ End(s)
    /\ UNCHANGED <<user, linked, profiles, plans, bookmarks, requests, overlaps>>

\* The process dies with all requests in flight.
Crash ==
    /\ slot' = [s \in Slot |-> Idle]
    /\ UNCHANGED <<user, linked, profiles, plans, files, bookmarks, requests, overlaps>>

Request(s) ==
    \/ StartLogin(s)
    \/ ReadForSave(s)
    \/ ReadForConfirm(s)
    \/ ReadForUpload(s)
    \/ ReadForAutofill(s)
    \/ ReadForBookmark(s)
    \/ RemoveBookmark(s)
    \/ StartWithdrawal(s)

Proceed(s) ==
    \/ Upsert(s)
    \/ CommitLogin(s)
    \/ SignedIn(s)
    \/ CommitSave(s)
    \/ CommitConfirm(s)
    \/ SaveFile(s)
    \/ CommitUpload(s)
    \/ CommitAutofill(s)
    \/ AddBookmark(s)
    \/ Unlink(s)
    \/ List(s)
    \/ Erase(s)
    \/ DeleteFiles(s)

Next ==
    \/ \E s \in Slot : Request(s) \/ Proceed(s) \/ Fail(s)
    \/ Crash

Spec == Init /\ [][Next]_vars

-----------------------------------------------------------------------------
\* The file of a plan is there as long as its row is: it is saved before the
\* row is inserted and deleted after the row's deletion is committed, whatever
\* fails, races or dies in between.
RowsHaveFiles == DOMAIN plans \subseteq files

\* Whoever signs in with Kakao is ACTIVE when he is given tokens, also when a
\* withdrawal commits meanwhile: the upsert waits for the row and sees what it
\* became, and a withdrawal waits for the upsert.
LoginLeavesActive ==
    [][\A s \in Slot :
          slot[s].kind = "login" /\ slot[s].step = "upserted"
              /\ slot'[s].kind = "login" /\ slot'[s].step = "tokens"
          => user'.status = "ACTIVE"]_vars

\* Requests that do not overlap keep one profile, in which a founder-to-be has
\* no stage, the size follows industry and revenue wherever they came from,
\* and a confirmation is never older than the latest plan.
ProfileIsConsistent ==
    overlaps = {} =>
        /\ Cardinality(DOMAIN profiles) <= 1
        /\ \A id \in DOMAIN profiles :
              /\ Consistent(profiles[id])
              /\ profiles[id].size = DeriveSize(profiles[id].industry, profiles[id].revenue)
              /\ profiles[id].confirmed \in {None, LatestPlan}

\* A withdrawal that nothing overlaps leaves nothing behind, not even second
\* profiles and their plans that overlapping requests have made before.
WithdrawnOwnsNothing ==
    user.status = "WITHDRAWN" /\ "erase" \notin overlaps =>
        DOMAIN profiles = {} /\ DOMAIN plans = {} /\ bookmarks = {}

\* Nor is it refused by a foreign key.
ErasureIsNotRefused ==
    "erase" \notin overlaps =>
        \A s \in Slot : slot[s].kind = "withdraw" /\ slot[s].step = "erase" => ~Dangling(slot[s])

\* What the comments in _autofill_fields and _apply_pre_founder_transition say:
\* a founder-to-be has neither year of foundation nor revenue nor stage.
PreFounderHasNoHistory ==
    \A id \in DOMAIN profiles :
        profiles[id].type = "prestartup" => \A c \in History : profiles[id][c] = None
-----------------------------------------------------------------------------
(* What some of the invariants above rest on; AccountProofs shows that every *)
(* step keeps them.                                                        *)

In(s, kind, step) == slot[s].kind = kind /\ slot[s].step = step

TypeOK ==
    /\ user.status \in {"none", "ACTIVE", "WITHDRAWN", "BLOCKED"}
    /\ requests \in Nat
    /\ DOMAIN slot = Slot
    /\ \A s \in Slot :
          /\ slot[s].kind = "upload" =>
                 slot[s] = [kind |-> "upload", step |-> slot[s].step, plan |-> slot[s].plan,
                            id |-> slot[s].id, reset |-> slot[s].reset]
          /\ In(s, "withdraw", "unlink") =>
                 slot[s] = [kind |-> "withdraw", step |-> "unlink", email |-> slot[s].email]

\* A plan has the number of its request: an upload in flight is about a plan
\* of its own, which no withdrawal has listed.
FileInv ==
    /\ DOMAIN plans \subseteq files \cap (1 .. requests)
    /\ \A s \in Slot : slot[s].kind = "upload" =>
          /\ slot[s].plan \in (1 .. requests) \ DOMAIN plans
          /\ slot[s].step = "saved" => slot[s].plan \in files
          /\ \A t \in Slot \ {s} : slot[t].kind = "upload" => slot[t].plan # slot[s].plan
          /\ \A t \in Slot : In(t, "withdraw", "erase") \/ In(t, "withdraw", "files") =>
                 slot[s].plan \notin slot[t].plans
    /\ \A t \in Slot : In(t, "withdraw", "erase") \/ In(t, "withdraw", "files") =>
          slot[t].plans \subseteq 1 .. requests
    /\ \A t \in Slot : In(t, "withdraw", "files") => slot[t].plans \cap DOMAIN plans = {}

\* The upsert that holds the row of user has seen what it is.
LoginInv ==
    \A s \in Slot : In(s, "login", "upserted") =>
        /\ slot[s].status = user.status /\ user.status # "BLOCKED"
        /\ \A t \in Slot \ {s} : ~In(t, "login", "upserted")

\* A withdrawal that nothing overlaps is alone, has listed all there is, and
\* leaves the user with nothing but a way to sign in.
EraseInv ==
    "erase" \notin overlaps =>
        /\ \A s \in Slot : slot[s].kind = "withdraw" =>
              \A o \in Slot \ {s} : slot[o].kind = "idle"
        /\ \A s \in Slot : In(s, "withdraw", "erase") =>
              /\ slot[s].profiles = DOMAIN profiles
              /\ slot[s].plans = DOMAIN plans
              /\ slot[s].bookmarks = bookmarks
        /\ user.status = "WITHDRAWN" =>
              /\ DOMAIN profiles = {} /\ DOMAIN plans = {} /\ bookmarks = {}
              /\ \A s \in Slot : slot[s].kind \in {"idle", "login"} \/ In(s, "withdraw", "files")

\* A row that ProfileIsConsistent allows.
ProfileOk(row) ==
    /\ row = [c \in Columns |-> row[c]]
    /\ Consistent(row)
    /\ row.size = DeriveSize(row.industry, row.revenue)
    /\ row.confirmed \in {None, LatestPlan}

\* What a request in flight has read is what is stored: the profile that it
\* found, or none, and its confirmation.
UpToDate(s) ==
    /\ slot[s].kind = "save" =>
          /\ slot[s].new \in Nat
          /\ slot[s].id \in Primary /\ slot[s].read = RowOf(slot[s].id)
          /\ \E edit \in Edit :
                /\ Consistent(Merged(Cleaned(edit), slot[s].read))
                /\ slot[s].fields = Sized(Cleaned(edit), slot[s].read)
    /\ slot[s].kind = "autofill" /\ slot[s].id \in DOMAIN profiles =>
          /\ slot[s].read = profiles[slot[s].id]
          /\ \E says \in Says : slot[s].fields = Filled(says, slot[s].read)
    /\ slot[s].kind = "upload" =>
          /\ slot[s].plan \in Nat /\ slot[s].id \in Primary
          /\ slot[s].reset = (RowOf(slot[s].id).confirmed # None)

\* Requests that do not overlap come one at a time, and find one profile or none.
ProfileInv ==
    overlaps = {} =>
        /\ \A s, t \in Slot : s # t => "idle" \in {slot[s].kind, slot[t].kind}
        /\ \A s \in Slot : UpToDate(s)
        /\ profiles = [id \in DOMAIN profiles |-> profiles[id]]
        /\ DOMAIN profiles \subseteq Nat
        /\ \A a, b \in DOMAIN profiles : a = b
        /\ \A id \in DOMAIN profiles : ProfileOk(profiles[id])
=============================================================================
