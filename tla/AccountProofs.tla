---------------------------- MODULE AccountProofs ----------------------------
(***************************************************************************)
(* Account for any number of requests in flight and requests in all, any   *)
(* bodies of requests and any answers of the analysis: stored files, the   *)
(* meeting of sign-in and withdrawal, what a withdrawal leaves, and the    *)
(* rules on the profile.                                                   *)
(***************************************************************************)
EXTENDS Account, FunctionTheorems, FiniteSetTheorems, TLAPS

\* What one slot does leaves the others alone.
LEMMA OneSlot ==
    ASSUME NEW s \in Slot, NEW record, DOMAIN slot = Slot, Goto(s, record)
    PROVE  /\ DOMAIN slot' = Slot
           /\ slot'[s] = record
           /\ \A t \in Slot \ {s} : slot'[t] = slot[t]
  BY DEF Goto

-----------------------------------------------------------------------------
(* Typing.                                                                 *)

\* Records keep the fields that later steps of the request change.
LEMMA TypeStep == TypeOK /\ [Next]_vars => TypeOK'
  <1> SUFFICES ASSUME TypeOK, [Next]_vars PROVE TypeOK'
    OBVIOUS
  <1> USE DEF TypeOK, In
  <1>1. ASSUME NEW s \in Slot, Request(s) PROVE TypeOK'
    BY <1>1 DEF Request, StartLogin, ReadForSave, ReadForConfirm, ReadForUpload, ReadForAutofill,
                ReadForBookmark, RemoveBookmark, StartWithdrawal, Arrive, Goto
  <1>2. ASSUME NEW s \in Slot, Proceed(s) PROVE TypeOK'
    <2>1. CASE Upsert(s) \/ SignedIn(s)
      BY <2>1 DEF Upsert, SignedIn, Goto, End, Idle
    <2>6. CASE CommitLogin(s)
      BY <2>6 DEF CommitLogin, Goto
    <2>2. CASE CommitSave(s) \/ CommitConfirm(s) \/ CommitUpload(s) \/ CommitAutofill(s)
      BY <2>2 DEF CommitSave, CommitConfirm, CommitUpload, CommitAutofill, Goto, End, Idle
    <2>3. CASE SaveFile(s) \/ AddBookmark(s)
      BY <2>3 DEF SaveFile, AddBookmark, Goto, End, Idle
    <2>4. CASE Unlink(s) \/ List(s) \/ DeleteFiles(s)
      BY <2>4 DEF Unlink, List, DeleteFiles, Goto, End, Idle
    <2>5. CASE Erase(s)
      <3>1. CASE Dangling(slot[s])
        BY <2>5, <3>1 DEF Erase, Goto, End, Idle
      <3>2. CASE ~Dangling(slot[s])
        <4>1. user'.status = "WITHDRAWN"
          BY <2>5, <3>2 DEF Erase
        <4>2. Goto(s, [kind |-> "withdraw", step |-> "files", plans |-> slot[s].plans])
          BY <2>5, <3>2 DEF Erase
        <4>3. UNCHANGED requests
          BY <2>5 DEF Erase
        <4> QED
          BY <4>1, <4>2, <4>3 DEF Goto
      <3> QED
        BY <3>1, <3>2
    <2> QED
      BY <1>2, <2>1, <2>2, <2>3, <2>4, <2>5, <2>6 DEF Proceed
  <1>3. ASSUME NEW s \in Slot, Fail(s) PROVE TypeOK'
    BY <1>3 DEF Fail, Goto, End, Idle
  <1>4. CASE Crash
    BY <1>4 DEF Crash, Idle
  <1>5. CASE UNCHANGED vars
    BY <1>5 DEF vars
  <1> QED
    BY <1>1, <1>2, <1>3, <1>4, <1>5 DEF Next
-----------------------------------------------------------------------------
(* Files.                                                                  *)

\* A step that touches neither plans nor files, and starts nothing that does.
LEMMA FileQuiet ==
    ASSUME FileInv, requests \in Nat, requests' \in {requests, requests + 1},
           UNCHANGED <<plans, files>>,
           \A t \in Slot :
               \/ slot'[t] = slot[t]
               \/ /\ slot'[t].kind # "upload"
                  /\ slot'[t].kind = "withdraw" => slot'[t].step \notin {"erase", "files"}
    PROVE  FileInv'
  <1>1. 1 .. requests \subseteq 1 .. requests'
    OBVIOUS
  <1> QED
    BY <1>1 DEF FileInv, In

\* An upload's plan has a number that no row, file of a row or list has.
LEMMA FileStep == TypeOK /\ FileInv /\ [Next]_vars => FileInv'
  <1> SUFFICES ASSUME TypeOK, FileInv, [Next]_vars PROVE FileInv'
    OBVIOUS
  <1> USE DEF In
  <1>1. requests \in Nat /\ DOMAIN slot = Slot
    BY DEF TypeOK
  <1>2. ASSUME NEW s \in Slot, Request(s), ~ReadForUpload(s) PROVE FileInv'
    <2>1. requests' = requests + 1 /\ UNCHANGED <<plans, files>>
      BY <1>2 DEF Request, StartLogin, ReadForSave, ReadForConfirm, ReadForAutofill,
                  ReadForBookmark, RemoveBookmark, StartWithdrawal, Arrive
    <2>2. ASSUME NEW t \in Slot
          PROVE  \/ slot'[t] = slot[t]
                 \/ /\ slot'[t].kind # "upload"
                    /\ slot'[t].kind = "withdraw" => slot'[t].step \notin {"erase", "files"}
      BY <1>1, <1>2 DEF Request, StartLogin, ReadForSave, ReadForConfirm, ReadForAutofill,
                        ReadForBookmark, RemoveBookmark, StartWithdrawal, Goto
    <2> QED
      BY <1>1, <2>1, <2>2, FileQuiet
  <1>3. ASSUME NEW s \in Slot, ReadForUpload(s) PROVE FileInv'
    <2>1. requests' = requests + 1 /\ UNCHANGED <<plans, files>> /\ slot[s].kind = "idle"
      BY <1>3 DEF ReadForUpload, Arrive, Idle
    <2>2. /\ slot'[s].kind = "upload" /\ slot'[s].step = "read" /\ slot'[s].plan = requests + 1
          /\ \A t \in Slot \ {s} : slot'[t] = slot[t]
      BY <1>1, <1>3 DEF ReadForUpload, Goto
    <2>3. requests + 1 \in (1 .. requests') \ (1 .. requests) /\ 1 .. requests \subseteq 1 .. requests'
      BY <1>1, <2>1
    <2> QED
      BY <2>1, <2>2, <2>3 DEF FileInv
  <1>4. ASSUME NEW s \in Slot, Proceed(s),
               ~SaveFile(s), ~CommitUpload(s), ~List(s), ~Erase(s), ~DeleteFiles(s)
        PROVE  FileInv'
    <2>1. UNCHANGED <<plans, files, requests>>
      BY <1>4 DEF Proceed, Upsert, CommitLogin, SignedIn, CommitSave, CommitConfirm,
                  CommitAutofill, AddBookmark, Unlink
    <2>2. ASSUME NEW t \in Slot
          PROVE  \/ slot'[t] = slot[t]
                 \/ /\ slot'[t].kind # "upload"
                    /\ slot'[t].kind = "withdraw" => slot'[t].step \notin {"erase", "files"}
      BY <1>1, <1>4 DEF TypeOK, Proceed, Upsert, CommitLogin, SignedIn, CommitSave, CommitConfirm,
                  CommitAutofill, AddBookmark, Unlink, Goto, End, Idle
    <2> QED
      BY <1>1, <2>1, <2>2, FileQuiet
  <1>5. ASSUME NEW s \in Slot, SaveFile(s) PROVE FileInv'
    <2>1. /\ slot[s].kind = "upload"
          /\ slot'[s].kind = "upload" /\ slot'[s].step = "saved" /\ slot'[s].plan = slot[s].plan
          /\ \A t \in Slot \ {s} : slot'[t] = slot[t]
      BY <1>1, <1>5 DEF TypeOK, SaveFile, Goto
    <2>2. files' = files \cup {slot[s].plan} /\ UNCHANGED <<plans, requests>>
      BY <1>5 DEF SaveFile
    <2> QED
      BY <2>1, <2>2 DEF FileInv
  <1>6. ASSUME NEW s \in Slot, CommitUpload(s) PROVE FileInv'
    <2>1. /\ slot[s].kind = "upload" /\ slot[s].step = "saved" /\ slot'[s].kind = "idle"
          /\ \A t \in Slot \ {s} : slot'[t] = slot[t]
      BY <1>1, <1>6 DEF CommitUpload, End, Goto, Idle
    <2>2. DOMAIN plans' = DOMAIN plans \cup {slot[s].plan} /\ UNCHANGED <<files, requests>>
      BY <1>6 DEF CommitUpload, With
    <2> QED
      BY <2>1, <2>2 DEF FileInv
  <1>7. ASSUME NEW s \in Slot, List(s) PROVE FileInv'
    <2>1. /\ slot[s].kind = "withdraw" /\ slot'[s].kind = "withdraw" /\ slot'[s].step = "erase"
          /\ slot'[s].plans = DOMAIN plans
          /\ \A t \in Slot \ {s} : slot'[t] = slot[t]
      BY <1>1, <1>7 DEF List, Goto
    <2>2. UNCHANGED <<plans, files, requests>>
      BY <1>7 DEF List
    <2> QED
      BY <2>1, <2>2 DEF FileInv
  <1>8. ASSUME NEW s \in Slot, Erase(s) PROVE FileInv'
    <2>1. UNCHANGED <<files, requests>> /\ slot[s].kind = "withdraw" /\ slot[s].step = "erase"
      BY <1>8 DEF Erase
    <2>2. CASE Dangling(slot[s])
      <3>1. /\ UNCHANGED plans /\ slot'[s].kind = "idle"
            /\ \A t \in Slot \ {s} : slot'[t] = slot[t]
        BY <1>1, <1>8, <2>2 DEF Erase, End, Goto, Idle
      <3> QED
        BY <2>1, <3>1 DEF FileInv
    <2>3. CASE ~Dangling(slot[s])
      <3>1. /\ slot'[s].kind = "withdraw" /\ slot'[s].step = "files"
            /\ slot'[s].plans = slot[s].plans
            /\ \A t \in Slot \ {s} : slot'[t] = slot[t]
        BY <1>1, <1>8, <2>3 DEF Erase, Goto
      <3>2. DOMAIN plans' = DOMAIN plans \ slot[s].plans
        BY <1>8, <2>3 DEF Erase, Without
      <3> QED
        BY <2>1, <3>1, <3>2 DEF FileInv
    <2> QED
      BY <2>2, <2>3
  <1>9. ASSUME NEW s \in Slot, DeleteFiles(s) PROVE FileInv'
    <2>1. /\ slot[s].kind = "withdraw" /\ slot[s].step = "files" /\ slot'[s].kind = "idle"
          /\ \A t \in Slot \ {s} : slot'[t] = slot[t]
      BY <1>1, <1>9 DEF DeleteFiles, End, Goto, Idle
    <2>2. files' \in {files, files \ slot[s].plans} /\ UNCHANGED <<plans, requests>>
      BY <1>9 DEF DeleteFiles
    <2> QED
      BY <2>1, <2>2 DEF FileInv
  <1>10. ASSUME NEW s \in Slot, Fail(s) PROVE FileInv'
    <2>1. slot'[s].kind = "idle" /\ \A t \in Slot \ {s} : slot'[t] = slot[t]
      BY <1>1, <1>10 DEF Fail, End, Goto, Idle
    <2>2. /\ UNCHANGED <<plans, requests>>
          /\ files' = IF slot[s].kind = "upload" THEN files \ {slot[s].plan} ELSE files
      BY <1>10 DEF Fail
    <2> QED
      BY <2>1, <2>2 DEF FileInv
  <1>11. CASE Crash
    BY <1>11 DEF Crash, Idle, FileInv
  <1>12. CASE UNCHANGED vars
    BY <1>12 DEF vars, FileInv
  <1> QED
    BY <1>2, <1>3, <1>4, <1>5, <1>6, <1>7, <1>8, <1>9, <1>10, <1>11, <1>12 DEF Next

-----------------------------------------------------------------------------
(* Sign-in.                                                                *)

\* Nobody else writes the status of a row that an upsert holds.
LEMMA LoginStep == TypeOK /\ LoginInv /\ [Next]_vars => LoginInv'
  <1> SUFFICES ASSUME TypeOK, LoginInv, [Next]_vars PROVE LoginInv'
    OBVIOUS
  <1> USE DEF In, LoginInv
  <1>1. DOMAIN slot = Slot
    BY DEF TypeOK
  <1> DEFINE Upserted(t) == slot[t].kind = "login" /\ slot[t].step = "upserted"
             Kept == \A t \in Slot : \/ slot'[t] = slot[t]
                                     \/ ~(slot'[t].kind = "login" /\ slot'[t].step = "upserted")
  <1>2. ASSUME UNCHANGED user, Kept PROVE LoginInv'
    BY <1>2
  <1>3. ASSUME NEW s \in Slot, Request(s) PROVE LoginInv'
    <2>1. UNCHANGED user
      BY <1>3 DEF Request, StartLogin, ReadForSave, ReadForConfirm, ReadForUpload, ReadForAutofill,
                  ReadForBookmark, RemoveBookmark, StartWithdrawal
    <2>2. Kept
      BY <1>1, <1>3 DEF Request, StartLogin, ReadForSave, ReadForConfirm, ReadForUpload,
                        ReadForAutofill, ReadForBookmark, RemoveBookmark, StartWithdrawal, Goto
    <2> QED
      BY <1>2, <2>1, <2>2
  <1>4. ASSUME NEW s \in Slot, Upsert(s) PROVE LoginInv'
    BY <1>1, <1>4 DEF Upsert, UserLocked, Goto, Idle
  <1>5. ASSUME NEW s \in Slot, CommitLogin(s) PROVE LoginInv'
    BY <1>1, <1>5 DEF CommitLogin, Goto
  <1>6. ASSUME NEW s \in Slot, Erase(s) PROVE LoginInv'
    <2>1. \A t \in Slot : ~Upserted(t)
      BY <1>6 DEF Erase, UserLocked
    <2>2. \A t \in Slot \ {s} : slot'[t] = slot[t]
      BY <1>1, <1>6 DEF Erase, Goto, End
    <2>3. slot'[s].kind # "login"
      <3>1. CASE Dangling(slot[s])
        BY <1>1, <1>6, <3>1 DEF Erase, Goto, End, Idle
      <3>2. CASE ~Dangling(slot[s])
        BY <1>1, <1>6, <3>2 DEF Erase, Goto
      <3> QED
        BY <3>1, <3>2
    <2> QED
      BY <2>1, <2>2, <2>3
  <1>7. ASSUME NEW s \in Slot, Proceed(s), ~Upsert(s), ~CommitLogin(s), ~Erase(s) PROVE LoginInv'
    <2>1. UNCHANGED user
      BY <1>7 DEF Proceed, SignedIn, CommitSave, CommitConfirm, SaveFile, CommitUpload,
                  CommitAutofill, AddBookmark, Unlink, List, DeleteFiles
    <2>2. Kept
      BY <1>1, <1>7 DEF TypeOK, Proceed, SignedIn, CommitSave, CommitConfirm, SaveFile,
                  CommitUpload, CommitAutofill, AddBookmark, Unlink, List, DeleteFiles, Goto, End, Idle
    <2> QED
      BY <1>2, <2>1, <2>2
  <1>8. ASSUME NEW s \in Slot, Fail(s) PROVE LoginInv'
    BY <1>1, <1>8 DEF Fail, Goto, End, Idle
  <1>9. CASE Crash
    BY <1>9 DEF Crash, Idle
  <1>10. CASE UNCHANGED vars
    BY <1>10 DEF vars
  <1> QED
    BY <1>3, <1>4, <1>5, <1>6, <1>7, <1>8, <1>9, <1>10 DEF Next

-----------------------------------------------------------------------------
(* Withdrawal.                                                             *)

\* Overlaps are not forgotten.
LEMMA OverlapsStay == [Next]_vars => overlaps \subseteq overlaps'
  <1> SUFFICES ASSUME [Next]_vars PROVE overlaps \subseteq overlaps'
    OBVIOUS
  <1>1. ASSUME NEW s \in Slot, Request(s) PROVE overlaps \subseteq overlaps'
    BY <1>1 DEF Request, StartLogin, ReadForSave, ReadForConfirm, ReadForUpload, ReadForAutofill,
                ReadForBookmark, RemoveBookmark, StartWithdrawal, Arrive
  <1>2. ASSUME NEW s \in Slot, Proceed(s) PROVE UNCHANGED overlaps
    BY <1>2 DEF Proceed, Upsert, CommitLogin, SignedIn, CommitSave, CommitConfirm, SaveFile,
                CommitUpload, CommitAutofill, AddBookmark, Unlink, List, Erase, DeleteFiles
  <1> QED
    BY <1>1, <1>2 DEF Next, Fail, Crash, vars

\* A request that leaves no overlap behind is alone, or neither it nor anything
\* in flight is a withdrawal.
LEMMA ArriveAlone ==
    ASSUME NEW s \in Slot, NEW kind, Arrive(s, kind), kind # "idle", "erase" \notin overlaps'
    PROVE  /\ slot[s].kind = "idle"
           /\ \/ \A o \in Slot \ {s} : slot[o].kind = "idle"
              \/ kind # "withdraw" /\ \A o \in Slot : slot[o].kind # "withdraw"
  <1>1. slot[s].kind = "idle"
    BY DEF Arrive, Idle
  <1> DEFINE others == {slot[o].kind : o \in Slot \ {s}} \ {"idle"}
  <1>2. others = {} \/ "withdraw" \notin others \cup {kind}
    BY DEF Arrive
  <1>3. CASE others = {}
    BY <1>1, <1>3
  <1>4. CASE "withdraw" \notin others \cup {kind}
    BY <1>1, <1>4
  <1> QED
    BY <1>2, <1>3, <1>4

\* With no withdrawal in flight nothing a request does is in a list, and a
\* withdrawn user has none but sign-ins.
LEMMA EraseStep == TypeOK /\ LoginInv /\ EraseInv /\ [Next]_vars => EraseInv'
  <1> SUFFICES ASSUME TypeOK, LoginInv, EraseInv, [Next]_vars, "erase" \notin overlaps'
               PROVE  EraseInv'
    BY DEF EraseInv
  <1> USE DEF In
  <1>1. DOMAIN slot = Slot
    BY DEF TypeOK
  <1>2. "erase" \notin overlaps
    BY OverlapsStay
  <1>3. /\ \A s \in Slot : slot[s].kind = "withdraw" =>
              \A o \in Slot \ {s} : slot[o].kind = "idle"
        /\ \A s \in Slot : slot[s].kind = "withdraw" /\ slot[s].step = "erase" =>
              /\ slot[s].profiles = DOMAIN profiles
              /\ slot[s].plans = DOMAIN plans
              /\ slot[s].bookmarks = bookmarks
        /\ user.status = "WITHDRAWN" =>
              /\ DOMAIN profiles = {} /\ DOMAIN plans = {} /\ bookmarks = {}
              /\ \A s \in Slot : \/ slot[s].kind \in {"idle", "login"}
                                 \/ slot[s].kind = "withdraw" /\ slot[s].step = "files"
    BY <1>2 DEF EraseInv
  <1>4. ASSUME NEW s \in Slot, Request(s), ~StartWithdrawal(s) PROVE EraseInv'
    <2>1. UNCHANGED <<user, profiles, plans>> /\ \A t \in Slot \ {s} : slot'[t] = slot[t]
      BY <1>1, <1>4 DEF Request, StartLogin, ReadForSave, ReadForConfirm, ReadForUpload,
                  ReadForAutofill, ReadForBookmark, RemoveBookmark, Goto
    <2>2. PICK kind : Arrive(s, kind) /\ kind \notin {"idle", "withdraw"}
      BY <1>4 DEF Request, StartLogin, ReadForSave, ReadForConfirm, ReadForUpload,
                  ReadForAutofill, ReadForBookmark, RemoveBookmark
    <2>3. slot[s].kind = "idle" /\ \A o \in Slot : slot[o].kind # "withdraw"
      BY <2>2, ArriveAlone
    <2>4. slot'[s].kind # "withdraw"
      BY <1>1, <1>4, <2>3 DEF Request, StartLogin, ReadForSave, ReadForConfirm, ReadForUpload,
                  ReadForAutofill, ReadForBookmark, RemoveBookmark, Goto
    <2>5. CASE user.status = "WITHDRAWN"
      <3>1. StartLogin(s)
        BY <1>3, <1>4, <2>5 DEF Request, ReadForSave, ReadForConfirm, ReadForUpload,
                  ReadForAutofill, ReadForBookmark, RemoveBookmark, Authenticated
      <3>2. slot'[s].kind = "login" /\ UNCHANGED bookmarks
        BY <1>1, <3>1 DEF StartLogin, Goto
      <3> QED
        BY <1>3, <2>1, <2>3, <3>2 DEF EraseInv
    <2>6. CASE user.status # "WITHDRAWN"
      BY <2>1, <2>3, <2>4, <2>6 DEF EraseInv
    <2> QED
      BY <2>5, <2>6
  <1>5. ASSUME NEW s \in Slot, StartWithdrawal(s) PROVE EraseInv'
    <2>1. \A o \in Slot \ {s} : slot[o].kind = "idle"
      BY <1>5, ArriveAlone DEF StartWithdrawal
    <2>2. /\ user'.status = "ACTIVE" /\ slot'[s].kind = "withdraw" /\ slot'[s].step = "unlink"
          /\ \A o \in Slot \ {s} : slot'[o] = slot[o]
      BY <1>1, <1>5 DEF StartWithdrawal, Authenticated, Goto
    <2> QED
      BY <2>1, <2>2 DEF EraseInv
  <1>6. ASSUME NEW s \in Slot, Proceed(s), slot[s].kind # "withdraw" PROVE EraseInv'
    <2>1. slot[s].kind # "idle"
      BY <1>6 DEF Proceed, Upsert, CommitLogin, SignedIn, CommitSave, CommitConfirm, SaveFile,
                  CommitUpload, CommitAutofill, AddBookmark, Unlink, List, Erase, DeleteFiles
    <2>2. \A o \in Slot : slot[o].kind # "withdraw"
      BY <1>3, <1>6, <2>1
    <2>3. slot'[s].kind # "withdraw" /\ \A t \in Slot \ {s} : slot'[t] = slot[t]
      <3>1. ~Unlink(s) /\ ~List(s) /\ ~Erase(s) /\ ~DeleteFiles(s)
        BY <1>6 DEF Unlink, List, Erase, DeleteFiles
      <3> QED
        BY <1>1, <1>6, <3>1 DEF TypeOK, Proceed, Upsert, CommitLogin, SignedIn, CommitSave,
                  CommitConfirm, SaveFile, CommitUpload, CommitAutofill, AddBookmark, Goto, End, Idle
    <2>4. CASE CommitLogin(s)
      <3>1. user'.status # "WITHDRAWN"
        BY <2>4 DEF CommitLogin, LoginInv
      <3> QED
        BY <2>2, <2>3, <3>1 DEF EraseInv
    <2>5. CASE ~CommitLogin(s)
      <3>1. UNCHANGED user
        BY <1>6, <2>5 DEF Proceed, Upsert, SignedIn, CommitSave, CommitConfirm, SaveFile,
                  CommitUpload, CommitAutofill, AddBookmark, Unlink, List, Erase, DeleteFiles
      <3>2. CASE user.status = "WITHDRAWN"
        <4>1. Upsert(s) \/ SignedIn(s)
          BY <1>3, <1>6, <2>1, <2>5, <3>2 DEF Proceed, CommitSave, CommitConfirm, SaveFile,
                  CommitUpload, CommitAutofill, AddBookmark, Unlink, List, Erase, DeleteFiles
        <4>2. slot'[s].kind \in {"idle", "login"} /\ UNCHANGED <<profiles, plans, bookmarks>>
          BY <1>1, <4>1 DEF Upsert, SignedIn, Goto, End, Idle
        <4> QED
          BY <1>3, <2>2, <2>3, <3>1, <3>2, <4>2 DEF EraseInv
      <3>3. CASE user.status # "WITHDRAWN"
        BY <2>2, <2>3, <3>1, <3>3 DEF EraseInv
      <3> QED
        BY <3>2, <3>3
    <2> QED
      BY <2>4, <2>5
  <1>7. ASSUME NEW s \in Slot, Proceed(s), slot[s].kind = "withdraw" PROVE EraseInv'
    <2>1. \A o \in Slot \ {s} : slot[o].kind = "idle" /\ slot'[o] = slot[o]
      BY <1>1, <1>3, <1>7 DEF Proceed, Upsert, CommitLogin, SignedIn, CommitSave, CommitConfirm,
                  SaveFile, CommitUpload, CommitAutofill, AddBookmark, Unlink, List, Erase,
                  DeleteFiles, Goto, End
    <2>2. CASE Unlink(s)
      <3>1. /\ UNCHANGED <<user, profiles, plans, bookmarks>> /\ slot[s].step = "unlink"
            /\ \/ slot'[s].kind = "idle"
               \/ slot'[s].kind = "withdraw" /\ slot'[s].step = "list"
        BY <1>1, <1>7, <2>2 DEF TypeOK, Unlink, Goto, End, Idle
      <3> QED
        BY <1>3, <1>7, <2>1, <3>1 DEF EraseInv
    <2>3. CASE List(s)
      <3>1. /\ UNCHANGED <<user, profiles, plans, bookmarks>> /\ slot[s].step = "list"
            /\ slot'[s].kind = "withdraw" /\ slot'[s].step = "erase"
            /\ slot'[s].profiles = DOMAIN profiles /\ slot'[s].plans = DOMAIN plans
            /\ slot'[s].bookmarks = bookmarks
        BY <1>1, <2>3 DEF List, Goto
      <3> QED
        BY <1>3, <1>7, <2>1, <3>1 DEF EraseInv
    <2>4. CASE Erase(s)
      <3>1. /\ slot[s].step = "erase" /\ slot[s].profiles = DOMAIN profiles
            /\ slot[s].plans = DOMAIN plans /\ slot[s].bookmarks = bookmarks
        BY <1>3, <1>7, <2>4 DEF Erase
      <3>2. ~Dangling(slot[s])
        BY <3>1 DEF Dangling
      <3>3. DOMAIN profiles' = {} /\ DOMAIN plans' = {} /\ bookmarks' = {}
        BY <2>4, <3>1, <3>2 DEF Erase, Without
      <3>4. slot'[s].kind = "withdraw" /\ slot'[s].step = "files"
        BY <1>1, <2>4, <3>2 DEF Erase, Goto
      <3> QED
        BY <2>1, <3>3, <3>4 DEF EraseInv
    <2>5. CASE DeleteFiles(s)
      <3>1. UNCHANGED <<user, profiles, plans, bookmarks>> /\ slot'[s].kind = "idle"
        BY <1>1, <2>5 DEF DeleteFiles, Goto, End, Idle
      <3> QED
        BY <1>3, <2>1, <3>1 DEF EraseInv
    <2> QED
      BY <1>7, <2>2, <2>3, <2>4, <2>5 DEF Proceed, Upsert, CommitLogin, SignedIn, CommitSave,
                  CommitConfirm, SaveFile, CommitUpload, CommitAutofill, AddBookmark
  <1>8. ASSUME NEW s \in Slot, Fail(s) PROVE EraseInv'
    <2>1. /\ UNCHANGED <<user, profiles, plans, bookmarks>> /\ slot'[s].kind = "idle"
          /\ \A t \in Slot \ {s} : slot'[t] = slot[t]
      BY <1>1, <1>8 DEF Fail, Goto, End, Idle
    <2> QED
      BY <1>3, <2>1 DEF EraseInv
  <1>9. CASE Crash
    BY <1>3, <1>9 DEF Crash, Idle, EraseInv
  <1>10. CASE UNCHANGED vars
    BY <1>3, <1>10 DEF vars, EraseInv
  <1> QED
    BY <1>4, <1>5, <1>6, <1>7, <1>8, <1>9, <1>10 DEF Next, Request

-----------------------------------------------------------------------------
(* The company profile.                                                    *)

\* A row is a function on the columns, which a body of a request names some of.
LEMMA EditColumns ==
    ASSUME NEW edit \in Edit
    PROVE  /\ DOMAIN Cleaned(edit) \subseteq Columns
           /\ {"size", "confirmed"} \cap DOMAIN Cleaned(edit) = {}
  <1>1. DOMAIN edit \subseteq {"type", "stage", "founded", "industry", "revenue", "region"}
    BY BodiesAssumption
  <1>2. \/ Cleaned(edit) = edit
        \/ DOMAIN Cleaned(edit) = History \cup DOMAIN edit
    BY DEF Cleaned, Merged
  <1>3. Columns = {"type", "stage", "founded", "industry", "revenue", "size", "region", "confirmed"}
    BY DEF Columns, Blank
  <1> QED
    BY <1>1, <1>2, <1>3 DEF History

\* Nothing has happened in between: what is written is what the request sets,
\* and what it has read otherwise.
LEMMA WrittenIsMerged ==
    ASSUME NEW fields, NEW row, DOMAIN fields \subseteq Columns, row = [c \in Columns |-> row[c]]
    PROVE  Written(fields, row, row) = Merged(fields, row)
  <1>1. DOMAIN fields \cup DOMAIN row = Columns
    OBVIOUS
  <1> QED
    BY <1>1 DEF Written, Merged

\* A row that a save has accepted is consistent, and has the size that follows
\* from its industry and revenue.
LEMMA SavedIsOk ==
    ASSUME NEW row, row = [c \in Columns |-> row[c]], row.confirmed \in {None, LatestPlan},
           NEW edit \in Edit, Consistent(Merged(Cleaned(edit), row))
    PROVE  /\ DOMAIN Sized(Cleaned(edit), row) \subseteq Columns
           /\ ProfileOk(Merged(Sized(Cleaned(edit), row), row))
  <1> DEFINE set == Cleaned(edit)
             before == Merged(set, row)
             size == DeriveSize(before.industry, before.revenue)
             fields == Sized(set, row)
             after == Merged(fields, row)
  <1>1. /\ DOMAIN set \subseteq Columns
        /\ {"size", "confirmed"} \cap DOMAIN set = {}
    BY EditColumns
  <1>2. /\ {"type", "stage", "founded", "industry", "revenue", "size", "region", "confirmed"} = Columns
        /\ DOMAIN row = Columns
    BY DEF Columns, Blank
  <1> HIDE DEF set
  <1>3. before = [c \in Columns |-> IF c \in DOMAIN set THEN set[c] ELSE row[c]]
    <2>1. DOMAIN set \cup DOMAIN row = Columns
      BY <1>1, <1>2
    <2> QED
      BY <2>1 DEF Merged
  <1>4. /\ DOMAIN fields = {"size"} \cup DOMAIN set
        /\ fields.size = size
        /\ \A c \in DOMAIN set : fields[c] = set[c]
    <2>1. DOMAIN [size |-> size] = {"size"} /\ [size |-> size]["size"] = size
      OBVIOUS
    <2>2. fields = [c \in {"size"} \cup DOMAIN set |-> IF c \in {"size"} THEN [size |-> size][c] ELSE set[c]]
      BY <2>1 DEF Sized, Merged
    <2>3. \A c \in DOMAIN set : c # "size"
      BY <1>1
    <2> QED
      BY <2>1, <2>2, <2>3
  <1> HIDE DEF before, fields
  <1>5. after = [c \in Columns |-> IF c \in DOMAIN fields THEN fields[c] ELSE row[c]]
    <2>1. DOMAIN fields \cup DOMAIN row = Columns
      BY <1>1, <1>2, <1>4
    <2> QED
      BY <2>1 DEF Merged
  <1>6. /\ after.type = before.type /\ after.stage = before.stage
        /\ after.industry = before.industry /\ after.revenue = before.revenue
        /\ after.size = size /\ after.confirmed = row.confirmed
    BY <1>1, <1>2, <1>3, <1>4, <1>5
  <1>7. Consistent(after)
    BY <1>6 DEF Consistent, before, set
  <1>8. after.size = DeriveSize(after.industry, after.revenue)
    BY <1>6
  <1>9. after = [c \in Columns |-> after[c]]
    BY <1>5
  <1>10. after.confirmed \in {None, LatestPlan}
    BY <1>6
  <1>11. ProfileOk(after)
    BY <1>7, <1>8, <1>9, <1>10 DEF ProfileOk
  <1> QED
    BY <1>1, <1>2, <1>4, <1>11 DEF fields, set

\* What the analysis fills in of a row leaves it a row: no stage, industry or
\* revenue, and no prestartup where there is a history.
LEMMA FilledIsOk ==
    ASSUME NEW row, ProfileOk(row), NEW says \in Says
    PROVE  ProfileOk(Written(Filled(says, row), row, row))
  <1> DEFINE fields == Filled(says, row)
             after == Written(fields, row, row)
             found == {c \in DOMAIN says : row[c] = None /\ says[c] # None}
             older == "founded" \in found \/ \E c \in History : row[c] # None
  <1>1. DOMAIN says \subseteq {"type", "founded", "region"}
    BY BodiesAssumption
  <1>2. {"type", "stage", "founded", "industry", "revenue", "size", "region", "confirmed"} = Columns
    BY DEF Columns, Blank
  <1>3. fields = [c \in IF older /\ says.type = "prestartup" THEN found \ {"type"} ELSE found |-> says[c]]
    BY DEF Filled
  <1>4. DOMAIN fields \subseteq {"type", "founded", "region"}
    BY <1>1, <1>3
  <1>5. "type" \in DOMAIN fields => fields["type"] = says["type"] /\ ~(older /\ says["type"] = "prestartup")
    BY <1>3
  <1> HIDE DEF fields
  <1>6. after = [c \in Columns |-> IF c \in DOMAIN fields /\ fields[c] # row[c] THEN fields[c] ELSE row[c]]
    BY DEF Written
  <1>7. /\ after.stage = row.stage /\ after.industry = row.industry /\ after.revenue = row.revenue
        /\ after.size = row.size /\ after.confirmed = row.confirmed
    BY <1>2, <1>4, <1>6
  <1>8. Consistent(after)
    <2>1. CASE after.type = row.type
      BY <1>7, <2>1 DEF Consistent, ProfileOk
    <2>2. CASE after.type # row.type
      <3>1. "type" \in DOMAIN fields /\ after.type = fields["type"]
        BY <1>2, <1>6, <2>2
      <3>2. after.type = "prestartup" => row.stage = None
        BY <1>5, <3>1 DEF History
      <3> QED
        BY <1>7, <3>2 DEF Consistent
    <2> QED
      BY <2>1, <2>2
  <1>9. after = [c \in Columns |-> after[c]]
    BY <1>6
  <1> HIDE DEF after
  <1>10. ProfileOk(after)
    BY <1>7, <1>8, <1>9 DEF ProfileOk
  <1> QED
    BY <1>10 DEF after, fields

\* An empty row is one.
LEMMA BlankIsOk ==
    /\ Blank = [c \in Columns |-> Blank[c]]
    /\ ProfileOk(Blank)
  BY DEF Blank, Columns, ProfileOk, Consistent, DeriveSize

\* A request that nothing overlaps finds nobody.
LEMMA NobodyElse ==
    ASSUME NEW s \in Slot, NEW kind, Arrive(s, kind), kind # "idle", overlaps' = {}
    PROVE  \A o \in Slot : slot[o].kind = "idle"
  <1> DEFINE others == {slot[o].kind : o \in Slot \ {s}} \ {"idle"}
  <1>1. slot[s].kind = "idle"
    BY DEF Arrive, Idle
  <1>2. others = {} \/ "withdraw" \notin others \cup {kind}
    BY DEF Arrive
  <1>3. others \ {"withdraw"} = {} \/ kind = "withdraw"
    BY DEF Arrive
  <1>4. others = {}
    BY <1>2, <1>3
  <1> QED
    BY <1>1, <1>4

\* The time of confirmation is the latest plan, or the confirmation is gone.
LEMMA ConfirmedIsOk ==
    ASSUME NEW row, ProfileOk(row), NEW plan \in {None, LatestPlan}
    PROVE  ProfileOk([row EXCEPT !.confirmed = plan])
  <1> DEFINE after == [row EXCEPT !.confirmed = plan]
  <1>1. row = [c \in Columns |-> row[c]]
    BY DEF ProfileOk
  <1>2. {"type", "stage", "founded", "industry", "revenue", "size", "region", "confirmed"} = Columns
    BY DEF Columns, Blank
  <1>3. after = [c \in Columns |-> IF c = "confirmed" THEN plan ELSE row[c]]
    BY <1>1, <1>2
  <1>4. /\ after.type = row.type /\ after.stage = row.stage
        /\ after.industry = row.industry /\ after.revenue = row.revenue
        /\ after.size = row.size /\ after.confirmed = plan
    BY <1>2, <1>3
  <1>5. after = [c \in Columns |-> after[c]]
    BY <1>3
  <1> QED
    BY <1>4, <1>5 DEF ProfileOk, Consistent

\* A row that is there after a step that leaves the plans alone, or that is not
\* confirmed.
LEMMA RowStaysOk ==
    ASSUME NEW row, ProfileOk(row), UNCHANGED plans \/ row.confirmed = None,
           NEW id, profiles'[id] = row
    PROVE  ProfileOk(profiles[id])'
  <1>1. row.confirmed \in {None, LatestPlan'}
    <2>1. CASE UNCHANGED plans
      <3>1. LatestPlan' = LatestPlan
        BY <2>1 DEF LatestPlan
      <3> QED
        BY <3>1 DEF ProfileOk
    <2>2. CASE row.confirmed = None
      BY <2>2
    <2> QED
      BY <2>1, <2>2
  <1> QED
    BY <1>1 DEF ProfileOk

\* So are all of them after a step that touches neither.
LEMMA RowsStayOk ==
    ASSUME UNCHANGED profiles, UNCHANGED plans, \A id \in DOMAIN profiles : ProfileOk(profiles[id])
    PROVE  \A id \in DOMAIN profiles' : ProfileOk(profiles[id])'
  <1> SUFFICES ASSUME NEW id \in DOMAIN profiles PROVE ProfileOk(profiles[id])'
    OBVIOUS
  <1>1. PICK row : row = profiles[id]
    OBVIOUS
  <1> QED
    BY <1>1, RowStaysOk

\* A step after which only one request is in flight, that has read nothing or
\* what it had, leaves the profile alone.
LEMMA ProfileQuiet ==
    ASSUME ProfileInv, overlaps = {}, NEW s \in Slot,
           UNCHANGED profiles, UNCHANGED plans,
           \A t \in Slot \ {s} : slot'[t].kind = "idle",
           UpToDate(s)'
    PROVE  ProfileInv'
  <1>1. \A t \in Slot : UpToDate(t)'
    BY DEF UpToDate
  <1>2. \A a, b \in Slot : a # b => "idle" \in {slot'[a].kind, slot'[b].kind}
    OBVIOUS
  <1>3. \A id \in DOMAIN profiles' : ProfileOk(profiles[id])'
    BY RowsStayOk DEF ProfileInv
  <1> QED
    BY <1>1, <1>2, <1>3 DEF ProfileInv

\* A step that changes the profile and leaves nothing in flight.
LEMMA ProfileChanged ==
    ASSUME \A t \in Slot : slot'[t].kind = "idle",
           profiles' = [id \in DOMAIN profiles' |-> profiles'[id]],
           DOMAIN profiles' \subseteq Nat,
           \A a, b \in DOMAIN profiles' : a = b,
           \A id \in DOMAIN profiles' : ProfileOk(profiles[id])'
    PROVE  ProfileInv'
  <1>1. \A t \in Slot : UpToDate(t)'
    BY DEF UpToDate
  <1> QED
    BY <1>1 DEF ProfileInv

\* The profile is written by the request that has read it, with nothing between.
LEMMA ProfileStep == TypeOK /\ EraseInv /\ ProfileInv /\ [Next]_vars => ProfileInv'
  <1> SUFFICES ASSUME TypeOK, EraseInv, ProfileInv, [Next]_vars, overlaps' = {}
               PROVE  ProfileInv'
    BY DEF ProfileInv
  <1>1. DOMAIN slot = Slot /\ requests \in Nat
    BY DEF TypeOK
  <1>2. overlaps = {}
    BY OverlapsStay
  <1>3. /\ \A s, t \in Slot : s # t => "idle" \in {slot[s].kind, slot[t].kind}
        /\ \A s \in Slot : UpToDate(s)
        /\ profiles = [id \in DOMAIN profiles |-> profiles[id]]
        /\ DOMAIN profiles \subseteq Nat
        /\ \A a, b \in DOMAIN profiles : a = b
        /\ \A id \in DOMAIN profiles : ProfileOk(profiles[id])
    BY <1>2 DEF ProfileInv
  <1>4. None \notin DOMAIN profiles
    BY <1>3, BodiesAssumption
  <1>5. ASSUME NEW id \in Primary
        PROVE  \/ id = None /\ DOMAIN profiles = {} /\ RowOf(id) = Blank
               \/ id # None /\ DOMAIN profiles = {id} /\ RowOf(id) = profiles[id]
    <2>1. CASE profiles = <<>>
      <3>1. DOMAIN profiles = {} /\ id = None
        BY <1>5, <2>1 DEF Primary
      <3> QED
        BY <3>1 DEF RowOf
    <2>2. CASE profiles # <<>>
      <3>1. id \in DOMAIN profiles
        BY <1>5, <2>2 DEF Primary
      <3>2. id # None /\ DOMAIN profiles = {id}
        BY <1>3, <1>4, <3>1
      <3> QED
        BY <3>2 DEF RowOf
    <2> QED
      BY <2>1, <2>2
  <1>6. ASSUME NEW s \in Slot, Request(s) PROVE ProfileInv'
    <2>1. UNCHANGED <<profiles, plans>> /\ \A t \in Slot \ {s} : slot'[t] = slot[t]
      BY <1>1, <1>6 DEF Request, StartLogin, ReadForSave, ReadForConfirm, ReadForUpload,
                  ReadForAutofill, ReadForBookmark, RemoveBookmark, StartWithdrawal, Goto
    <2>2. PICK kind : Arrive(s, kind) /\ kind # "idle"
      BY <1>6 DEF Request, StartLogin, ReadForSave, ReadForConfirm, ReadForUpload,
                  ReadForAutofill, ReadForBookmark, RemoveBookmark, StartWithdrawal
    <2>3. \A o \in Slot : slot[o].kind = "idle"
      BY <2>2, NobodyElse
    <2>4. requests + 1 \in Nat
      BY <1>1
    <2>5. CASE ReadForSave(s)
      <3>1. PICK edit \in Edit, id \in Primary :
               IF Acceptable(edit) /\ Consistent(Merged(Cleaned(edit), RowOf(id)))
               THEN Goto(s, [kind |-> "save", id |-> id, new |-> requests + 1, read |-> RowOf(id),
                             fields |-> Sized(Cleaned(edit), RowOf(id))])
               ELSE UNCHANGED slot
        BY <2>5 DEF ReadForSave
      <3>2. CASE Acceptable(edit) /\ Consistent(Merged(Cleaned(edit), RowOf(id)))
        <4>1. slot'[s] = [kind |-> "save", id |-> id, new |-> requests + 1, read |-> RowOf(id),
                          fields |-> Sized(Cleaned(edit), RowOf(id))]
          BY <1>1, <3>1, <3>2 DEF Goto
        <4>2. Primary' = Primary /\ RowOf(id)' = RowOf(id)
          BY <2>1 DEF Primary, RowOf
        <4>3. UpToDate(s)'
          BY <2>4, <3>2, <4>1, <4>2 DEF UpToDate
        <4> QED
          BY <1>2, <2>1, <2>3, <4>3, ProfileQuiet
      <3>3. CASE ~(Acceptable(edit) /\ Consistent(Merged(Cleaned(edit), RowOf(id))))
        <4>1. UpToDate(s)'
          BY <2>3, <3>1, <3>3 DEF UpToDate
        <4> QED
          BY <1>2, <2>1, <2>3, <4>1, ProfileQuiet
      <3> QED
        BY <3>2, <3>3
    <2>6. CASE ReadForUpload(s)
      <3>1. PICK id \in Primary :
               Goto(s, [kind |-> "upload", step |-> "read", plan |-> requests + 1, id |-> id,
                        reset |-> RowOf(id).confirmed # None])
        BY <2>6 DEF ReadForUpload
      <3>2. /\ slot'[s].kind = "upload" /\ slot'[s].plan = requests + 1 /\ slot'[s].id = id
            /\ slot'[s].reset = (RowOf(id).confirmed # None)
        BY <1>1, <3>1 DEF Goto
      <3>3. Primary' = Primary /\ RowOf(id)' = RowOf(id)
        BY <2>1 DEF Primary, RowOf
      <3>4. UpToDate(s)'
        BY <2>4, <3>2, <3>3 DEF UpToDate
      <3> QED
        BY <1>2, <2>1, <2>3, <3>4, ProfileQuiet
    <2>7. CASE ReadForAutofill(s)
      <3>1. PICK p \in DOMAIN plans, says \in Says :
               Goto(s, [kind |-> "autofill", id |-> plans[p], read |-> profiles[plans[p]],
                        fields |-> Filled(says, profiles[plans[p]])])
        BY <2>7 DEF ReadForAutofill
      <3>2. slot'[s] = [kind |-> "autofill", id |-> plans[p], read |-> profiles[plans[p]],
                        fields |-> Filled(says, profiles[plans[p]])]
        BY <1>1, <3>1 DEF Goto
      <3>3. UpToDate(s)'
        BY <2>1, <3>2 DEF UpToDate
      <3> QED
        BY <1>2, <2>1, <2>3, <3>3, ProfileQuiet
    <2>8. CASE ~ReadForSave(s) /\ ~ReadForUpload(s) /\ ~ReadForAutofill(s)
      <3>1. slot'[s].kind \in {"login", "confirm", "bookmark", "withdraw", "idle"}
        BY <1>1, <1>6, <2>3, <2>8 DEF Request, StartLogin, ReadForConfirm, ReadForBookmark,
                  RemoveBookmark, StartWithdrawal, Goto
      <3>2. UpToDate(s)'
        BY <3>1 DEF UpToDate
      <3> QED
        BY <1>2, <2>1, <2>3, <3>2, ProfileQuiet
    <2> QED
      BY <2>5, <2>6, <2>7, <2>8
  <1>7. ASSUME NEW s \in Slot, Proceed(s) PROVE ProfileInv'
    <2>1. slot[s].kind # "idle"
      BY <1>7 DEF Proceed, Upsert, CommitLogin, SignedIn, CommitSave, CommitConfirm, SaveFile,
                  CommitUpload, CommitAutofill, AddBookmark, Unlink, List, Erase, DeleteFiles
    <2>2. \A t \in Slot \ {s} : slot[t].kind = "idle"
      BY <1>3, <2>1
    <2>3. \A t \in Slot \ {s} : slot'[t].kind = "idle"
      BY <1>1, <1>7, <2>2 DEF Proceed, Upsert, CommitLogin, SignedIn, CommitSave, CommitConfirm,
                  SaveFile, CommitUpload, CommitAutofill, AddBookmark, Unlink, List, Erase,
                  DeleteFiles, Goto, End
    <2>4. CASE CommitSave(s)
      <3>1. PICK id \in Primary :
              profiles' = IF id = None THEN With(profiles, slot[s].new, Merged(slot[s].fields, Blank))
                          ELSE LET read == IF id = slot[s].id THEN slot[s].read ELSE profiles[id]
                               IN  [profiles EXCEPT ![id] = Written(slot[s].fields, read, @)]
        BY <2>4 DEF CommitSave
      <3>2. /\ slot[s].new \in Nat
            /\ slot[s].id \in Primary /\ slot[s].read = RowOf(slot[s].id)
        BY <1>3, <2>4 DEF UpToDate, CommitSave
      <3>3. PICK edit \in Edit : /\ Consistent(Merged(Cleaned(edit), slot[s].read))
                                 /\ slot[s].fields = Sized(Cleaned(edit), slot[s].read)
        BY <1>3, <2>4 DEF UpToDate, CommitSave
      <3>4. slot[s].id = id /\ slot[s].read = RowOf(id)
        BY <1>5, <3>2
      <3>5. ProfileOk(RowOf(id))
        <4>1. CASE id = None
          <5>1. RowOf(id) = Blank
            BY <4>1 DEF RowOf
          <5> QED
            BY <5>1, BlankIsOk
        <4>2. CASE id # None
          <5>1. id \in DOMAIN profiles /\ RowOf(id) = profiles[id]
            BY <1>5, <4>2
          <5> QED
            BY <1>3, <5>1
        <4> QED
          BY <4>1, <4>2
      <3> DEFINE row == RowOf(id)
                 fields == Sized(Cleaned(edit), row)
      <3>6. slot[s].fields = fields /\ Consistent(Merged(Cleaned(edit), row))
        BY <3>3, <3>4
      <3>7. row = [c \in Columns |-> row[c]] /\ row.confirmed \in {None, LatestPlan}
        BY <3>5 DEF ProfileOk
      <3>8. DOMAIN fields \subseteq Columns /\ ProfileOk(Merged(fields, row))
        BY <3>6, <3>7, SavedIsOk
      <3>9. PICK after : after = Merged(fields, row) /\ ProfileOk(after)
        BY <3>8
      <3>10. PICK new \in Nat : profiles' = [x \in {new} |-> after]
        <4>1. CASE id = None
          <5>1. DOMAIN profiles = {} /\ row = Blank
            BY <1>5, <4>1
          <5>2. profiles' = With(profiles, slot[s].new, after)
            BY <3>1, <3>6, <3>9, <4>1, <5>1
          <5>3. DOMAIN profiles \cup {slot[s].new} = {slot[s].new}
            BY <5>1
          <5>4. profiles' = [x \in {slot[s].new} |-> after]
            BY <5>2, <5>3 DEF With
          <5> QED
            BY <3>2, <5>4
        <4>2. CASE id # None
          <5>1. DOMAIN profiles = {id} /\ row = profiles[id] /\ id \in Nat
            BY <1>3, <1>5, <4>2
          <5>2. profiles' = [profiles EXCEPT ![id] = Written(fields, row, @)]
            BY <3>1, <3>4, <3>6, <4>2
          <5> HIDE DEF row, fields
          <5>3. profiles' = [x \in {id} |-> Written(fields, row, row)]
            BY <1>3, <5>1, <5>2
          <5>4. Written(fields, row, row) = after
            BY <3>7, <3>8, <3>9, WrittenIsMerged
          <5> QED
            BY <5>1, <5>3, <5>4
        <4> QED
          BY <4>1, <4>2
      <3>11. \A t \in Slot : slot'[t].kind = "idle"
        BY <1>1, <2>3, <2>4 DEF CommitSave, End, Goto, Idle
      <3>12. DOMAIN profiles' = {new} /\ profiles'[new] = after
        BY <3>10
      <3>13. ProfileOk(profiles[new])'
        BY <2>4, <3>9, <3>12, RowStaysOk DEF CommitSave
      <3>14. \A x \in DOMAIN profiles' : ProfileOk(profiles[x])'
        BY <3>12, <3>13
      <3>15. profiles' = [x \in DOMAIN profiles' |-> profiles'[x]]
        BY <3>10
      <3> QED
        BY <3>11, <3>12, <3>14, <3>15, ProfileChanged
    <2>5. CASE CommitConfirm(s)
      <3>1. PICK id : id = slot[s].id
        OBVIOUS
      <3>2. /\ id \in DOMAIN profiles /\ UNCHANGED plans
            /\ profiles' = [profiles EXCEPT ![id].confirmed = LatestPlan]
        BY <2>5, <3>1 DEF CommitConfirm
      <3>3. DOMAIN profiles = {id} /\ id \in Nat /\ ProfileOk(profiles[id])
        BY <1>3, <3>2
      <3>4. PICK after : after = [profiles[id] EXCEPT !.confirmed = LatestPlan]
        OBVIOUS
      <3>5. ProfileOk(after)
        BY <3>3, <3>4, ConfirmedIsOk
      <3>6. profiles' = [x \in {id} |-> after]
        BY <1>3, <3>2, <3>3, <3>4
      <3>7. DOMAIN profiles' = {id} /\ profiles'[id] = after
        BY <3>6
      <3>8. ProfileOk(profiles[id])'
        BY <3>2, <3>5, <3>7, RowStaysOk
      <3>9. \A t \in Slot : slot'[t].kind = "idle"
        BY <1>1, <2>3, <2>5 DEF CommitConfirm, End, Goto, Idle
      <3>10. \A x \in DOMAIN profiles' : ProfileOk(profiles[x])'
        BY <3>7, <3>8
      <3>11. profiles' = [x \in DOMAIN profiles' |-> profiles'[x]]
        BY <3>6
      <3> QED
        BY <3>3, <3>7, <3>9, <3>10, <3>11, ProfileChanged
    <2>6. CASE CommitUpload(s)
      <3>1. PICK id, plan : id = slot[s].id /\ plan = slot[s].plan
        OBVIOUS
      <3>2. /\ plan \in Nat /\ id \in Primary
            /\ slot[s].reset = (RowOf(id).confirmed # None)
        BY <1>3, <2>6, <3>1 DEF UpToDate, CommitUpload
      <3>3. profiles' = IF id = None THEN With(profiles, plan, Blank)
                        ELSE [profiles EXCEPT ![id].confirmed = IF slot[s].reset THEN None ELSE @]
        BY <2>6, <3>1 DEF CommitUpload
      <3>4. PICK new, after : /\ new \in Nat /\ profiles' = [x \in {new} |-> after]
                              /\ ProfileOk(after) /\ after.confirmed = None
        <4>1. CASE id = None
          <5>1. DOMAIN profiles = {}
            BY <1>5, <3>2, <4>1
          <5>2. DOMAIN profiles \cup {plan} = {plan}
            BY <5>1
          <5>3. profiles' = [x \in {plan} |-> Blank]
            BY <3>3, <4>1, <5>2 DEF With
          <5>4. Blank.confirmed = None
            BY DEF Blank
          <5> QED
            BY <3>2, <5>3, <5>4, BlankIsOk
        <4>2. CASE id # None
          <5>1. /\ DOMAIN profiles = {id} /\ id \in Nat /\ ProfileOk(profiles[id])
                /\ RowOf(id) = profiles[id]
            BY <1>3, <1>5, <3>2, <4>2
          <5>2. PICK after : after = [profiles[id] EXCEPT !.confirmed = None]
            OBVIOUS
          <5>3. ProfileOk(after)
            BY <5>1, <5>2, ConfirmedIsOk
          <5>4. (IF slot[s].reset THEN None ELSE profiles[id].confirmed) = None
            BY <3>2, <5>1
          <5>5. profiles' = [x \in {id} |-> after]
            BY <1>3, <3>3, <4>2, <5>1, <5>2, <5>4
          <5>6. after.confirmed = None
            BY <5>1, <5>2 DEF ProfileOk, Columns, Blank
          <5> QED
            BY <5>1, <5>3, <5>5, <5>6
        <4> QED
          BY <4>1, <4>2
      <3>5. DOMAIN profiles' = {new} /\ profiles'[new] = after
        BY <3>4
      <3>6. ProfileOk(profiles[new])'
        BY <3>4, <3>5, RowStaysOk
      <3>7. \A t \in Slot : slot'[t].kind = "idle"
        BY <1>1, <2>3, <2>6 DEF CommitUpload, End, Goto, Idle
      <3>8. \A x \in DOMAIN profiles' : ProfileOk(profiles[x])'
        BY <3>5, <3>6
      <3>9. profiles' = [x \in DOMAIN profiles' |-> profiles'[x]]
        BY <3>4
      <3> QED
        BY <3>4, <3>5, <3>7, <3>8, <3>9, ProfileChanged
    <2>7. CASE CommitAutofill(s)
      <3>1. PICK id : id = slot[s].id
        OBVIOUS
      <3>2. /\ id \in DOMAIN profiles /\ UNCHANGED plans /\ slot[s].kind = "autofill"
            /\ profiles' = [profiles EXCEPT ![id] = Written(slot[s].fields, slot[s].read, @)]
        BY <2>7, <3>1 DEF CommitAutofill
      <3>3. PICK row : row = profiles[id]
        OBVIOUS
      <3>4. PICK says \in Says : slot[s].fields = Filled(says, row) /\ slot[s].read = row
        BY <1>3, <3>1, <3>2, <3>3 DEF UpToDate
      <3>5. DOMAIN profiles = {id} /\ id \in Nat /\ ProfileOk(row)
        BY <1>3, <3>2, <3>3
      <3>6. PICK after : after = Written(Filled(says, row), row, row)
        OBVIOUS
      <3>7. ProfileOk(after)
        BY <3>5, <3>6, FilledIsOk
      <3>8. profiles' = [x \in {id} |-> after]
        BY <1>3, <3>2, <3>3, <3>4, <3>5, <3>6
      <3>9. DOMAIN profiles' = {id} /\ profiles'[id] = after
        BY <3>8
      <3>10. ProfileOk(profiles[id])'
        BY <3>2, <3>7, <3>9, RowStaysOk
      <3>11. \A t \in Slot : slot'[t].kind = "idle"
        BY <1>1, <2>3, <2>7 DEF CommitAutofill, End, Goto, Idle
      <3>12. \A x \in DOMAIN profiles' : ProfileOk(profiles[x])'
        BY <3>9, <3>10
      <3>13. profiles' = [x \in DOMAIN profiles' |-> profiles'[x]]
        BY <3>8
      <3> QED
        BY <3>5, <3>9, <3>11, <3>12, <3>13, ProfileChanged
    <2>8. CASE SaveFile(s)
      <3>1. /\ UNCHANGED <<profiles, plans>> /\ slot[s].kind = "upload"
            /\ slot'[s] = [slot[s] EXCEPT !.step = "saved"]
        BY <1>1, <2>8 DEF SaveFile, Goto
      <3>2. /\ slot'[s].kind = "upload" /\ slot'[s].plan = slot[s].plan
            /\ slot'[s].id = slot[s].id /\ slot'[s].reset = slot[s].reset
        BY <3>1 DEF TypeOK
      <3>3. Primary' = Primary /\ RowOf(slot[s].id)' = RowOf(slot'[s].id)
        BY <3>1, <3>2 DEF Primary, RowOf
      <3>4. UpToDate(s)'
        BY <1>3, <3>1, <3>2, <3>3 DEF UpToDate, Primary, RowOf
      <3> QED
        BY <1>2, <2>3, <3>1, <3>4, ProfileQuiet
    <2>9. CASE Erase(s)
      <3>1. /\ slot[s].profiles = DOMAIN profiles /\ slot[s].plans = DOMAIN plans
            /\ slot[s].bookmarks = bookmarks
        BY <1>2, <2>9 DEF EraseInv, In, Erase
      <3>2. ~Dangling(slot[s])
        BY <3>1 DEF Dangling
      <3>3. /\ profiles' = Without(profiles, DOMAIN profiles)
            /\ Goto(s, [kind |-> "withdraw", step |-> "files", plans |-> slot[s].plans])
        BY <2>9, <3>1, <3>2 DEF Erase
      <3>4. DOMAIN profiles' = {} /\ profiles' = [x \in DOMAIN profiles' |-> profiles'[x]]
        BY <3>3 DEF Without
      <3>10. slot'[s].kind = "withdraw"
        BY <1>1, <3>3 DEF Goto
      <3>5. \A t \in Slot : UpToDate(t)'
        BY <2>3, <3>10 DEF UpToDate
      <3>6. \A a, b \in Slot : a # b => "idle" \in {slot'[a].kind, slot'[b].kind}
        BY <2>3
      <3>7. DOMAIN profiles' \subseteq Nat
        BY <3>4
      <3>8. \A a, b \in DOMAIN profiles' : a = b
        BY <3>4
      <3>9. \A id \in DOMAIN profiles' : ProfileOk(profiles[id])'
        BY <3>4
      <3> QED
        BY <3>4, <3>5, <3>6, <3>7, <3>8, <3>9 DEF ProfileInv
    <2>10. CASE Upsert(s) \/ CommitLogin(s) \/ SignedIn(s) \/ AddBookmark(s) \/ Unlink(s)
                \/ List(s) \/ DeleteFiles(s)
      <3>1. UNCHANGED <<profiles, plans>>
        BY <2>10 DEF Upsert, CommitLogin, SignedIn, AddBookmark, Unlink, List, DeleteFiles
      <3>2. slot'[s].kind \in {"idle", "login", "withdraw"}
        BY <1>1, <2>10 DEF TypeOK, In, Upsert, CommitLogin, SignedIn, AddBookmark, Unlink, List,
                  DeleteFiles, Goto, End, Idle
      <3>3. UpToDate(s)'
        BY <3>2 DEF UpToDate
      <3> QED
        BY <1>2, <2>3, <3>1, <3>3, ProfileQuiet
    <2> QED
      BY <1>7, <2>4, <2>5, <2>6, <2>7, <2>8, <2>9, <2>10 DEF Proceed
  <1>8. ASSUME NEW s \in Slot, Fail(s) PROVE ProfileInv'
    <2>1. UNCHANGED <<profiles, plans>> /\ slot'[s].kind = "idle"
      BY <1>1, <1>8 DEF Fail, Goto, End, Idle
    <2>3. \A t \in Slot \ {s} : slot'[t] = slot[t]
      BY <1>1, <1>8 DEF Fail, Goto, End
    <2>4. \A t \in Slot : UpToDate(t)'
      BY <1>3, <2>1, <2>3 DEF UpToDate, Primary, RowOf
    <2> QED
      BY <1>3, <2>1, <2>3, <2>4, RowsStayOk DEF ProfileInv
  <1>9. CASE Crash
    <2>1. UNCHANGED <<profiles, plans>> /\ \A t \in Slot : slot'[t].kind = "idle"
      BY <1>9 DEF Crash, Idle
    <2> QED
      BY <1>3, <2>1, RowsStayOk, ProfileChanged
  <1>10. CASE UNCHANGED vars
    <2>1. UNCHANGED <<profiles, plans, slot>>
      BY <1>10 DEF vars
    <2>2. \A t \in Slot : UpToDate(t)'
      BY <1>3, <2>1 DEF UpToDate, Primary, RowOf
    <2> QED
      BY <1>3, <2>1, <2>2, RowsStayOk DEF ProfileInv
  <1> QED
    BY <1>6, <1>7, <1>8, <1>9, <1>10 DEF Next

-----------------------------------------------------------------------------
\* What every reachable state satisfies.
THEOREM InvariantCorrect == Spec => [](TypeOK /\ FileInv /\ LoginInv /\ EraseInv)
  <1>1. Init => TypeOK /\ FileInv /\ LoginInv /\ EraseInv
    BY DEF Init, TypeOK, FileInv, LoginInv, EraseInv, In, Idle
  <1>2. TypeOK /\ FileInv /\ LoginInv /\ EraseInv /\ [Next]_vars
          => (TypeOK /\ FileInv /\ LoginInv /\ EraseInv)'
    BY TypeStep, FileStep, LoginStep, EraseStep
  <1> QED
    BY <1>1, <1>2, PTL DEF Spec

\* The file of a plan is there as long as its row is.
THEOREM FilesCorrect == Spec => []RowsHaveFiles
  <1>1. FileInv => RowsHaveFiles
    BY DEF FileInv, RowsHaveFiles
  <1> QED
    BY <1>1, InvariantCorrect, PTL

\* Whoever signs in with Kakao is ACTIVE when he is given tokens.
THEOREM LoginCorrect == Spec => LoginLeavesActive
  <1> DEFINE Let == \A s \in Slot :
                      slot[s].kind = "login" /\ slot[s].step = "upserted"
                          /\ slot'[s].kind = "login" /\ slot'[s].step = "tokens"
                      => user'.status = "ACTIVE"
  <1>1. TypeOK /\ LoginInv /\ [Next]_vars => [Let]_vars
    <2> SUFFICES ASSUME TypeOK, LoginInv, Next, NEW s \in Slot,
                        slot[s].kind = "login", slot[s].step = "upserted",
                        slot'[s].kind = "login", slot'[s].step = "tokens"
                 PROVE  user'.status = "ACTIVE"
      OBVIOUS
    <2>1. DOMAIN slot = Slot /\ slot[s].status = user.status
          /\ user.status \in {"none", "ACTIVE", "WITHDRAWN"}
      BY DEF TypeOK, LoginInv, In
    <2>2. CommitLogin(s)
      <3>1. ASSUME NEW t \in Slot, Request(t) PROVE FALSE
        BY <2>1, <3>1 DEF Request, StartLogin, ReadForSave, ReadForConfirm, ReadForUpload,
                  ReadForAutofill, ReadForBookmark, RemoveBookmark, StartWithdrawal, Arrive, Goto, Idle
      <3>2. ASSUME NEW t \in Slot, Proceed(t), ~CommitLogin(s) PROVE FALSE
        BY <2>1, <3>2 DEF TypeOK, Proceed, Upsert, CommitLogin, SignedIn, CommitSave, CommitConfirm,
                  SaveFile, CommitUpload, CommitAutofill, AddBookmark, Unlink, List, Erase,
                  DeleteFiles, Goto, End, Idle
      <3>3. ASSUME NEW t \in Slot, Fail(t) PROVE FALSE
        BY <2>1, <3>3 DEF Fail, Goto, End, Idle
      <3>4. ~Crash
        BY DEF Crash, Idle
      <3> QED
        BY <3>1, <3>2, <3>3, <3>4 DEF Next
    <2> QED
      BY <2>1, <2>2 DEF CommitLogin
  <1> QED
    BY <1>1, InvariantCorrect, PTL DEF Spec, LoginLeavesActive

\* A withdrawal that nothing overlaps leaves nothing behind.
THEOREM WithdrawalCorrect == Spec => []WithdrawnOwnsNothing
  <1>1. EraseInv => WithdrawnOwnsNothing
    BY DEF EraseInv, WithdrawnOwnsNothing
  <1> QED
    BY <1>1, InvariantCorrect, PTL

\* Nor is it refused by a foreign key.
THEOREM ErasureCorrect == Spec => []ErasureIsNotRefused
  <1>1. EraseInv => ErasureIsNotRefused
    BY DEF EraseInv, ErasureIsNotRefused, Dangling, In
  <1> QED
    BY <1>1, InvariantCorrect, PTL

\* Requests that do not overlap find what the one before them has left.
THEOREM ProfileInvHolds == Spec => []ProfileInv
  <1>1. Init => ProfileInv
    <2> SUFFICES ASSUME Init PROVE ProfileInv
      OBVIOUS
    <2>1. /\ \A s \in Slot : slot[s].kind = "idle"
          /\ profiles = <<>>
      BY DEF Init, Idle
    <2>2. DOMAIN profiles = {} /\ profiles = [id \in DOMAIN profiles |-> profiles[id]]
      BY <2>1
    <2> QED
      BY <2>1, <2>2 DEF ProfileInv, UpToDate
  <1>2. TypeOK /\ EraseInv /\ ProfileInv /\ [Next]_vars => ProfileInv'
    BY ProfileStep
  <1> QED
    BY <1>1, <1>2, InvariantCorrect, PTL DEF Spec

\* They keep one profile, consistent, of the size that follows from it, and
\* confirmed for the latest plan or not at all.
THEOREM ProfileCorrect == Spec => []ProfileIsConsistent
  <1>1. ProfileInv => ProfileIsConsistent
    <2> SUFFICES ASSUME ProfileInv, overlaps = {}
                 PROVE  /\ Cardinality(DOMAIN profiles) <= 1
                        /\ \A id \in DOMAIN profiles : ProfileOk(profiles[id])
      BY DEF ProfileIsConsistent, ProfileOk
    <2>1. /\ \A a, b \in DOMAIN profiles : a = b
          /\ \A id \in DOMAIN profiles : ProfileOk(profiles[id])
      BY DEF ProfileInv
    <2>2. Cardinality(DOMAIN profiles) <= 1
      <3>1. CASE DOMAIN profiles = {}
        BY <3>1, FS_EmptySet
      <3>2. CASE DOMAIN profiles # {}
        <4>1. PICK id : DOMAIN profiles = {id}
          BY <2>1, <3>2
        <4> QED
          BY <4>1, FS_Singleton
      <3> QED
        BY <3>1, <3>2
    <2> QED
      BY <2>1, <2>2
  <1> QED
    BY <1>1, ProfileInvHolds, PTL
==============================================================================
