--------------------------- MODULE GeneratedExample ---------------------------
(***************************************************************************)
(* The example programs the autorest.gotest generator emits (the expected  *)
(* outputs under sdk-testgen/.../integrationtest/output).  Each Example    *)
(* function obtains a credential, builds a client, and then makes one      *)
(* plain call, starts and polls a long-running operation, or walks a       *)
(* pager; every error ends the program with log.Fatal.  Three generations  *)
(* of the pager loop occur:                                                *)
(*   "whileNextPage"  for pager.NextPage(ctx) { if pager.Err() ... }       *)
(*   "nextThenErr"    for { r := pager.NextPage(ctx); if pager.Err() ...;  *)
(*                          if !r { break } ... }                          *)
(*   "more"           for pager.More() { r, err := pager.NextPage(ctx) ...}*)
(* The service and the azcore pager are the environment: any request may   *)
(* fail, a list has 1..MaxPages pages, and the old azcore Pager's          *)
(* NextPage returns false both after the last page and on an error, which  *)
(* it keeps for Err().  One run of one example is modelled; Init picks it. *)
(***************************************************************************)
EXTENDS Naturals, Sequences, Functions

CONSTANT MaxPages   \* pages a listing can have; bounds the pager loop

ASSUME MaxPages \in Nat \ {0}

\* The control shape of one Example function.
Shape(op, client, pager) == [op |-> op, client |-> client, pager |-> pager]
Call         == Shape("call", "plain", "none")
Lro          == Shape("lro", "plain", "none")
FallibleCall == Shape("call", "fallible", "none")  \* client, err := NewXClient(...)
FallibleLro  == Shape("lro", "fallible", "none")
WhileNextPage == Shape("pager", "plain", "whileNextPage")
NextThenErr   == Shape("pager", "plain", "nextThenErr")
MorePager     == Shape("pager", "fallible", "more")

(***************************************************************************)
(* The Example functions of each generated file, in file order.            *)
(***************************************************************************)
BindingsExamples == <<Call, Lro, Lro, Lro, NextThenErr>>
ConfigServersExamples == <<FallibleCall, FallibleLro, FallibleLro, FallibleLro>>
GalleryImageVersionsExamples == <<Lro, Lro, Call, Lro, WhileNextPage>>
LogAnalyticsExamples == <<Lro, Lro>>
RestorePointCollectionsClientExamples == <<Call, Call, WhileNextPage, WhileNextPage>>
VirtualMachinesExamples ==
  <<WhileNextPage, Lro, Lro, Lro, Call, Call, Call, Call, Lro, Lro, Call, Call,
    Lro, Lro, Lro>>
DiskAccessesExamples ==
  <<Lro, Lro, Call, Lro, WhileNextPage, WhileNextPage, Call, Lro, Call, Lro,
    WhileNextPage>>
RestorePointCollectionsExamples == <<Call, Call, WhileNextPage, WhileNextPage>>
VMScaleSetVMExtensionsExamples == <<Lro, Lro, Lro, Call, Call>>
GalleryApplicationVersionsExamples ==
  <<FallibleLro, FallibleLro, FallibleCall, FallibleLro, MorePager>>
ComponentVersionsExamples == <<MorePager, FallibleCall, FallibleCall, FallibleCall>>

AllExamples ==
  UNION {Range(f) : f \in {BindingsExamples, ConfigServersExamples,
          GalleryImageVersionsExamples, LogAnalyticsExamples,
          RestorePointCollectionsClientExamples, VirtualMachinesExamples,
          DiskAccessesExamples, RestorePointCollectionsExamples,
          VMScaleSetVMExtensionsExamples, GalleryApplicationVersionsExamples,
          ComponentVersionsExamples}}

VARIABLES
  ex,        \* the Example function being run
  pc,        \* its next statement
  exit,      \* "running", "returned" or "fatal" (log.Fatal: os.Exit(1))
  pages,     \* pages the service has for the listing
  served,    \* pages the pager has fetched successfully
  lastNext,  \* the bool (old) or the err == nil (new) NextPage returned last
  pagerErr,  \* pager.Err() (old) / the err NextPage returned (new)
  errSeen,   \* history: some call of the example returned an error
  consumed   \* consumed[i]: times page i's items were ranged over (capped at 2)

vars == <<ex, pc, exit, pages, served, lastNext, pagerErr, errSeen, consumed>>

Init ==
  /\ ex \in AllExamples
  /\ pc = "cred"
  /\ exit = "running"
  /\ pages \in 1..MaxPages
  /\ served = 0
  /\ lastNext = FALSE
  /\ pagerErr = FALSE
  /\ errSeen = FALSE
  /\ consumed = [i \in 1..MaxPages |-> 0]

\* log.Fatal / log.Fatalf after a call returned err.
Fatal ==
  /\ exit' = "fatal"
  /\ pc' = "end"
  /\ errSeen' = TRUE

\* The function returns normally.
Return ==
  /\ exit' = "returned"
  /\ pc' = "end"

\* The first statement after the client is built.
FirstOpStep == CASE ex.op = "call" -> "call" [] ex.op = "lro" -> "begin"
                 [] ex.op = "pager" -> "loop"

\* cred, err := azidentity.NewDefaultAzureCredential(nil)
GetCredential ==
  /\ pc = "cred"
  /\ \/ pc' = "client" /\ UNCHANGED <<exit, errSeen>>
     \/ Fatal
  /\ UNCHANGED <<ex, pages, served, lastNext, pagerErr, consumed>>

\* client := NewXClient(...) or client, err := NewXClient(...)
NewClient ==
  /\ pc = "client"
  /\ \/ pc' = FirstOpStep /\ UNCHANGED <<exit, errSeen>>
     \/ ex.client = "fallible" /\ Fatal
  /\ UNCHANGED <<ex, pages, served, lastNext, pagerErr, consumed>>

\* res, err := client.Op(ctx, ...); if err != nil { log.Fatal(err) }
CallOperation ==
  /\ pc = "call"
  /\ \/ Return /\ UNCHANGED errSeen
     \/ Fatal
  /\ UNCHANGED <<ex, pages, served, lastNext, pagerErr, consumed>>

\* poller, err := client.BeginOp(ctx, ...); if err != nil { log.Fatal(err) }
BeginOperation ==
  /\ pc = "begin"
  /\ \/ pc' = "poll" /\ UNCHANGED <<exit, errSeen>>
     \/ Fatal
  /\ UNCHANGED <<ex, pages, served, lastNext, pagerErr, consumed>>

\* res, err := poller.PollUntilDone(ctx, freq); if err != nil { log.Fatal(err) }
PollUntilDone ==
  /\ pc = "poll"
  /\ \/ Return /\ UNCHANGED errSeen
     \/ Fatal
  /\ UNCHANGED <<ex, pages, served, lastNext, pagerErr, consumed>>

(***************************************************************************)
(* The pager loop.  NextPage requests the next page while the service has  *)
(* one; the request succeeds or fails.  Old pager: the loop condition is   *)
(* NextPage's bool ("whileNextPage") or it is stored and tested after      *)
(* Err() ("nextThenErr").  New pager: the loop condition is More(), and    *)
(* NextPage returns (page, err).                                           *)
(***************************************************************************)

\* The result of one NextPage call as <<bool, err>>, over the service's answers.
NextPageResults ==
  IF served = pages THEN {<<FALSE, FALSE>>}        \* no next link: no request
  ELSE {<<TRUE, FALSE>>, <<FALSE, TRUE>>}          \* a page, or an error

\* Mutant: More() is taken to be false one page early.
PagerMoreEarlyStop ==
  /\ pc = "loop"
  /\ ex.pager = "more"
  /\ \/ /\ served + 1 >= pages
        /\ Return
        /\ UNCHANGED <<lastNext, pagerErr, served, errSeen>>
     \/ /\ served + 1 < pages
        /\ \E r \in NextPageResults :
             /\ lastNext' = r[1]
             /\ pagerErr' = r[2]
             /\ served' = IF r[1] THEN served + 1 ELSE served
             /\ errSeen' = (errSeen \/ r[2])
        /\ pc' = "checkErr"
        /\ UNCHANGED exit
  /\ UNCHANGED <<ex, pages, consumed>>

\* `for pager.More()` is false once the last page was fetched; otherwise
\* nextResult, err := pager.NextPage(ctx).
PagerMore ==
  /\ pc = "loop"
  /\ ex.pager = "more"
  /\ \/ /\ served = pages
        /\ Return
        /\ UNCHANGED <<lastNext, pagerErr, served, errSeen>>
     \/ /\ served < pages
        /\ \E r \in NextPageResults :
             /\ lastNext' = r[1]
             /\ pagerErr' = r[2]
             /\ served' = IF r[1] THEN served + 1 ELSE served
             /\ errSeen' = (errSeen \/ r[2])
        /\ pc' = "checkErr"
        /\ UNCHANGED exit
  /\ UNCHANGED <<ex, pages, consumed>>

\* pager.NextPage(ctx) of the old pager, with what the loop does with its bool.
PagerNextPage ==
  /\ pc = "loop"
  /\ ex.pager \in {"whileNextPage", "nextThenErr"}
  /\ \E r \in NextPageResults :
       /\ lastNext' = r[1]
       /\ pagerErr' = (pagerErr \/ r[2])
       /\ served' = IF r[1] THEN served + 1 ELSE served
       /\ errSeen' = (errSeen \/ r[2])
       /\ IF ex.pager = "whileNextPage" /\ ~r[1]
          THEN Return
          ELSE pc' = "checkErr" /\ UNCHANGED exit
  /\ UNCHANGED <<ex, pages, consumed>>

\* Mutant: `if !nextResult { break }` is left out.
CheckPageErrNoBreak ==
  /\ pc = "checkErr"
  /\ \/ pagerErr /\ Fatal
     \/ ~pagerErr /\ pc' = "items" /\ UNCHANGED <<exit, errSeen>>
  /\ UNCHANGED <<ex, pages, served, lastNext, pagerErr, consumed>>

\* Mutant: `continue` written for `break` after !nextResult.
CheckPageErrContinue ==
  /\ pc = "checkErr"
  /\ \/ pagerErr /\ Fatal
     \/ ~pagerErr /\ ~lastNext /\ pc' = "loop" /\ UNCHANGED <<exit, errSeen>>
     \/ ~pagerErr /\ lastNext /\ pc' = "items" /\ UNCHANGED <<exit, errSeen>>
  /\ UNCHANGED <<ex, pages, served, lastNext, pagerErr, consumed>>

\* if err := pager.Err(); err != nil { log.Fatalf(...) }, then, in the
\* "nextThenErr" loop, if !nextResult { break }.
CheckPageErr ==
  /\ pc = "checkErr"
  /\ \/ pagerErr /\ Fatal
     \/ ~pagerErr /\ ~lastNext /\ Return /\ UNCHANGED errSeen
     \/ ~pagerErr /\ lastNext /\ pc' = "items" /\ UNCHANGED <<exit, errSeen>>
  /\ UNCHANGED <<ex, pages, served, lastNext, pagerErr, consumed>>

\* for _, v := range pager.PageResponse().Value (or nextResult.Value) { ... }
ConsumePage ==
  /\ pc = "items"
  /\ consumed' = [consumed EXCEPT ![served] = IF @ < 2 THEN @ + 1 ELSE 2]
  /\ pc' = "loop"
  /\ UNCHANGED <<ex, exit, pages, served, lastNext, pagerErr, errSeen>>

\* The example has ended; the behaviour stutters.
Ended ==
  /\ pc = "end"
  /\ UNCHANGED vars

Next ==
  \/ GetCredential
  \/ NewClient
  \/ CallOperation
  \/ BeginOperation
  \/ PollUntilDone
  \/ PagerMore
  \/ PagerNextPage
  \/ CheckPageErr
  \/ ConsumePage
  \/ Ended

\* An example runs on one goroutine; the service always answers a request.
Spec == Init /\ [][Next]_vars /\ WF_vars(Next)

(***************************************************************************)
(* Properties                                                              *)
(***************************************************************************)

\* The pager loop ranges over the items of each page it fetched at most once:
\* a loop that re-reads PageResponse() after NextPage returned false would
\* report the last page twice.
PagesConsumedOnce == \A i \in 1..MaxPages : consumed[i] <= 1

\* An example that returns normally after no call failed has ranged over
\* every page the service had: the loop does not stop before the last page.
CompleteListingOnSuccess ==
  (exit = "returned" /\ ex.op = "pager" /\ ~errSeen)
    => \A i \in 1..pages : consumed[i] = 1

\* Every example ends, by returning or by log.Fatal.
Terminates == <>(pc = "end")

\* "if err != nil { log.Fatalf(...) }": an example whose calls returned an
\* error never returns normally; it ends in log.Fatal.
FatalOnError == exit = "returned" => ~errSeen

=============================================================================
