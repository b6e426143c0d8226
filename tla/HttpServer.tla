----------------------------- MODULE HttpServer -----------------------------
(***************************************************************************)
(* components/http_server: updateConfigHandler and the observer it calls,  *)
(* in place of Irrigator's Post, which takes a configuration as it comes.  *)
(* A body arrives in pieces, may be cut off, too long, no JSON, or lack a  *)
(* member; a client may post before app_main has registered the port list. *)
(*                                                                         *)
(* A member that is missing, and an observer that is, are null pointers:   *)
(* the chip panics and restarts, which is Irrigator's Reset.  The module   *)
(* has no other resets; MaxResets bounds the panics.                       *)
(***************************************************************************)
EXTENDS Irrigator

CONSTANTS
  Bodies,       \* what a client can send
  ScratchSize,  \* SCRATCH_BUFSIZE (10240)
  HeapDocs      \* documents the heap has room for: none is ever deleted

Members == {"interval", "duration", "quantity"}

(* What updatePortConfig makes of the members' ints.                       *)
Converted(body) ==
  [interval |-> body.interval % U32, required |-> body.quantity % U16]

ASSUME HttpAssumption ==
  /\ ScratchSize \in Nat \ {0} /\ HeapDocs \in Nat
  /\ \A b \in Bodies :
       /\ b.len \in Nat /\ b.json \in BOOLEAN /\ b.members \subseteq Members
       /\ b.json => b.len > 0 /\ Converted(b) \in Posted

VARIABLES
  request,     \* the body being received or worked on
  cur_len,     \* how much of it is in the scratch buffer
  answer,      \* how the last request was answered
  registered,  \* registerObserver was called
  heapDocs,    \* documents there is still room for
  torn         \* history: app_main copied a port httpd had not finished

httpVars == <<request, cur_len, answer, registered, heapDocs, torn>>

(* No document has no bytes.                                               *)
None == [len |-> 0, json |-> TRUE, members |-> {}]
Requested == request # None

-----------------------------------------------------------------------------
HttpInit ==
  /\ Init
  /\ request = None /\ cur_len = 0 /\ answer = "none"
  /\ registered = FALSE /\ heapDocs = HeapDocs /\ torn = FALSE

(* The server runs from initHttpServer on, which ends the start ...        *)
Start ==
  /\ Boot
  /\ request' = None /\ cur_len' = 0 /\ answer' = "none"
  /\ registered' = FALSE /\ heapDocs' = HeapDocs /\ UNCHANGED torn

(* ... but for the registration of the ports as its observer.              *)
registerObserver ==
  /\ Running /\ ~registered /\ registered' = TRUE
  /\ UNCHANGED <<vars, request, cur_len, answer, heapDocs, torn>>

-----------------------------------------------------------------------------
(* updateConfigHandler                                                     *)

Answer(how) == answer' = how /\ request' = None /\ cur_len' = 0

(* Bug: a body that leaves no room for the final 0 is accepted.            *)
BugFits(body) == body.len <= ScratchSize

Fits(body) == body.len < ScratchSize

(* Requests are bounded by MaxPosts, and by MaxResets where they can end in
   a panic.                                                                *)
Accept ==
  /\ Running /\ hpc = "idle" /\ ~Requested /\ posts < MaxPosts
  /\ \E body \in Bodies :
       /\ resets < MaxResets \/ (registered /\ body.members = Members)
       /\ IF Fits(body)
          THEN request' = body /\ cur_len' = 0 /\ answer' = "none"
          ELSE Answer("error")
  /\ UNCHANGED <<vars, registered, heapDocs, torn>>

Receiving == Running /\ hpc = "idle" /\ Requested /\ cur_len < request.len

(* The code asks for the full length each time; that no more than is left of
   the body comes is httpd_req_recv's doing ...                            *)
Receive ==
  /\ Receiving
  /\ \E received \in 1 .. request.len - cur_len : cur_len' = cur_len + received
  /\ UNCHANGED <<vars, request, answer, registered, heapDocs, torn>>

(* Bug: a timeout is tried again, for as long as the client is silent.     *)
BugTriesAgain == Receiving /\ UNCHANGED <<vars, httpVars>>

(* ... or a timeout, or that the client has closed.                        *)
ReceiveFails ==
  /\ Receiving
  /\ Answer("error")
  /\ UNCHANGED <<vars, registered, heapDocs, torn>>

Received == Running /\ hpc = "idle" /\ Requested /\ cur_len = request.len

Panic ==
  /\ Running /\ Reset /\ now' = now
  /\ UNCHANGED httpVars

(* notifyObserver; the observer is null until it was registered.           *)
NotifyNobody == Received /\ ~registered /\ Panic

(* cJSON_Parse fails: nothing is changed, and the answer is the same.      *)
NotParsed ==
  /\ Received /\ registered
  /\ ~request.json \/ heapDocs = 0
  /\ Answer("success")
  /\ UNCHANGED <<vars, registered, heapDocs, torn>>

Parsed ==
  /\ Received /\ registered /\ request.json /\ heapDocs > 0
  /\ Post /\ post' = Converted(request)
  /\ heapDocs' = heapDocs - 1
  /\ UNCHANGED <<request, cur_len, answer, registered, torn>>

HasInterval == "interval" \in request.members
HasOthers   == {"duration", "quantity"} \subseteq request.members

StoreInterval == HasInterval /\ SetInterval /\ UNCHANGED httpVars

StoreOthers == HasOthers /\ SetQuantity /\ UNCHANGED httpVars

(* Bug: what is missing is left out, and the rest saved.                   *)
BugSavesTheRest ==
  /\ HasInterval /\ ~HasOthers /\ hpc = "quantity" /\ Running
  /\ hpc' = "save"
  /\ UNCHANGED <<port, pc, caller, timeUpdated, resets, solenoid, clock, loop,
                 locals, vault, post, posts, overlap, slots, httpVars>>

NullMember ==
  /\ \/ hpc = "interval" /\ ~HasInterval
     \/ hpc = "quantity" /\ ~HasOthers
  /\ Panic

(* Vault::setVaultData, then the answer.                                   *)
SaveConfig ==
  \/ CopyField("httpd") /\ UNCHANGED httpVars
  \/ WriteChunk("httpd") /\ Answer("success")
                         /\ UNCHANGED <<registered, heapDocs, torn>>

handler == \/ ReceiveFails \/ NotifyNobody \/ NotParsed \/ Parsed
           \/ StoreInterval \/ StoreOthers \/ NullMember \/ SaveConfig

-----------------------------------------------------------------------------
(* app_main's loop begins once the observer is registered.                 *)
MainLoop ==
  /\ registered /\ app_main
  /\ torn' = (torn \/ (hpc # "idle" /\ copied'["main"] # copied["main"]))
  /\ UNCHANGED <<request, cur_len, answer, registered, heapDocs>>

WakeUp == Wake /\ UNCHANGED httpVars

Around == (SntpSet \/ timeUpdateNotif \/ Tick) /\ UNCHANGED httpVars

HttpNext == Start \/ registerObserver \/ Accept \/ Receive \/ handler
            \/ MainLoop \/ WakeUp \/ Around

allVars == <<vars, httpVars>>

HttpSpec == HttpInit /\ [][HttpNext]_allVars

(* Every task is scheduled.  No client has to send anything: a body that does
   not come is ended by the server's timeout.                              *)
HttpFairness ==
  /\ WF_allVars(WakeUp) /\ WF_allVars(Start) /\ WF_allVars(registerObserver)
  /\ WF_allVars(MainLoop) /\ WF_allVars(handler)

HttpFairSpec == HttpSpec /\ HttpFairness

-----------------------------------------------------------------------------
(* Every variable has its type, and a body in work leaves room in the scratch
   buffer for the 0 that updateConfigHandler puts behind it.               *)
HttpTypeOK ==
  /\ request \in Bodies \cup {None} /\ request.len < ScratchSize
  /\ cur_len \in 0 .. request.len
  /\ answer \in {"none", "success", "error"}
  /\ registered \in BOOLEAN /\ heapDocs \in 0 .. HeapDocs /\ torn \in BOOLEAN
  /\ hpc # "idle" => Requested

WholeIntervals ==
  {InitPort.interval} \cup
    {Converted(b).interval : b \in {d \in Bodies : d.json /\ d.members = Members}}

(* A post that ends in a panic halfway leaves nothing behind in flash, unless
   app_main was saving while httpd was at it.                              *)
HalfPostNeverStored == nvs.interval \in WholeIntervals \/ torn

(* When httpd answers for a configuration it has parsed, all of it is in flash
   as it was asked for, and in the port: no pass, save or pulse of app_main
   between any two of the handler's steps gets into it.                    *)
StoredAsAsked ==
  [][Running /\ hpc = "save" /\ Requested /\ ~Requested' =>
       /\ Configured(nvs') = Converted(request)
       /\ Configured(port') = Converted(request)]_allVars

(* A request is answered, or the controller goes down with it.             *)
EveryRequestEnds == Requested ~> ~Requested

-----------------------------------------------------------------------------
(* What the source says of the program, and the code does not keep.        *)

(* http_server.cpp:108 answers "Post control value successfully": a whole
   configuration that is answered so is the port's.                        *)
SuccessMeansStored ==
  [][Requested /\ ~Requested' /\ answer' = "success"
       /\ request.json /\ request.members = Members =>
       Configured(port') = Converted(request)]_allVars

=============================================================================
