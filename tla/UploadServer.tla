---------------------------- MODULE UploadServer ----------------------------
(***************************************************************************)
(* The HTTP upload and download server (src/main/app/upload_server.c).     *)
(*                                                                         *)
(*   httpd task : one handler at a time; posts a command, waits for the ack *)
(*   LVGL task  : executes the command in the mailbox (all the SD I/O),    *)
(*                starts and stops the server from a button                *)
(*                                                                         *)
(* The mailbox is one struct (s_io), a queue of one command and a binary   *)
(* semaphore.  Both waits of a command time out; stopping the server from  *)
(* the LVGL task blocks the task the handler is waiting for.  Requests that *)
(* are rejected change nothing and are left out.                           *)
(***************************************************************************)
EXTENDS Integers, Sequences

CONSTANTS
  Names,       \* file names the clients use
  MaxRequests, \* requests a run may make
  Sizes,       \* sizes of uploads, in chunks of UPLOAD_CHUNK_SIZE
  Stalls       \* TRUE: a callback of the LVGL task may take over 5 s

ASSUME BoundsAssumption ==
  MaxRequests \in Nat /\ Sizes \subseteq Nat /\ Stalls \in BOOLEAN

VARIABLES
  lv,       \* LVGL task: "idle", "exec"uting a command, or "stopping"
  exec,     \* the command it took from the mailbox
  running,  \* s_running
  stopReq,  \* s_stop_req
  phase,    \* s_phase
  queue,    \* s_q: the command in the mailbox, or None
  ack,      \* s_ack
  io,       \* s_io: request, name chosen, data, length, result
  fp,       \* s_io.fp: the open file and its mode
  pos,      \* read position in it
  files,    \* the upload directory
  stage,    \* what the httpd task is doing: a command, or between two
  sub,      \* in send_cmd(): sending or waiting
  req,      \* the request being handled
  got,      \* chunks of it received so far
  made,     \* requests made so far
  late      \* history: some command has timed out

mailVars == <<queue, ack>>
sdVars   == <<fp, pos, files>>
httpVars == <<stage, sub, req, got, made>>
vars == <<lv, exec, running, stopReq, phase, mailVars, io, sdVars, httpVars,
          late>>

-----------------------------------------------------------------------------
None   == "none"
NoFile == [file |-> <<>>, mode |-> None]
NoReq  == [id |-> 0, name |-> None, size |-> 0]

Commands == {"OPEN_WRITE", "WRITE", "FINISH", "ABORT", "OPEN_READ", "READ",
             "CLOSE", "LIST"}

\* Mutant: the name as it was asked for, taken or not.
FreeNameAsked(n) == <<n, 0>>

\* The name with the lowest free number: name, name_1, name_2, ...
FreeName(n) ==
  LET free(i) == <<n, i>> \notin DOMAIN files
  IN  <<n, CHOOSE i \in 0 .. MaxRequests :
             free(i) /\ \A j \in 0 .. i - 1 : ~free(j)>>

With(f, entry) ==
  [g \in DOMAIN files \cup {f} |-> IF g = f THEN entry ELSE files[g]]

Without(f) == [g \in DOMAIN files \ {f} |-> files[g]]

Init ==
  /\ lv = "idle" /\ exec = None
  /\ running = FALSE /\ stopReq = FALSE /\ phase = "IDLE"
  /\ queue = None /\ ack = FALSE
  /\ io = [req |-> NoReq, final |-> <<>>, data |-> <<>>, len |-> 0,
           result |-> "ok"]
  /\ fp = NoFile /\ pos = 0
  /\ files = <<>>
  /\ stage = "idle" /\ sub = None /\ req = NoReq /\ got = 0 /\ made = 0
  /\ late = FALSE

-----------------------------------------------------------------------------
(* LVGL task: the commands *)

\* do_open_write(): the first free name; a file still open is forgotten.
OpenWrite ==
  LET f == FreeName(io.req.name)
      new == [by |-> io.req, content |-> <<>>, done |-> FALSE]
  IN  \/ /\ files' = With(f, new)
         /\ fp' = [file |-> f, mode |-> "w"]
         /\ io' = [io EXCEPT !.final = f, !.result = "ok"]
         /\ UNCHANGED pos
      \/ /\ fp' = NoFile
         /\ io' = [io EXCEPT !.final = f, !.result = "fail"]
         /\ UNCHANGED <<pos, files>>

\* do_write(): a failing fwrite() leaves the file as far as it got.
Write ==
  \/ /\ fp.mode = "w" /\ fp.file \in DOMAIN files
     /\ files' = [files EXCEPT ![fp.file].content = Append(@, io.data)]
     /\ io' = [io EXCEPT !.result = "ok"]
     /\ UNCHANGED <<fp, pos>>
  \/ /\ io' = [io EXCEPT !.result = "fail"]
     /\ UNCHANGED sdVars

\* do_finish(); the result of fclose() is not looked at by the handler.
Finish ==
  /\ IF fp.mode = "w" /\ fp.file \in DOMAIN files
     THEN files' = [files EXCEPT ![fp.file].done = TRUE]
     ELSE UNCHANGED files
  /\ io' = [io EXCEPT !.result = IF fp = NoFile THEN "fail" ELSE "ok"]
  /\ fp' = NoFile
  /\ UNCHANGED pos

\* do_abort(): close, and remove the file that was named last.
Abort ==
  /\ fp' = NoFile
  /\ files' = Without(io.final)
  /\ io' = [io EXCEPT !.result = "ok"]
  /\ UNCHANGED pos

\* do_open_read()
OpenRead ==
  \E i \in 0 .. MaxRequests :
    LET f == <<io.req.name, i>>
    IN  /\ pos' = 0
        /\ IF f \in DOMAIN files
           THEN /\ fp' = [file |-> f, mode |-> "r"]
                /\ io' = [io EXCEPT !.final = f, !.result = "ok"]
           ELSE /\ fp' = NoFile
                /\ io' = [io EXCEPT !.result = "fail"]
        /\ UNCHANGED files

\* do_read(): zero bytes at the end of the file, or when the card fails.
Read ==
  /\ IF fp = NoFile
     THEN io' = [io EXCEPT !.len = 0, !.result = "fail"] /\ UNCHANGED pos
     ELSE \E n \in 0 .. 1 :
            /\ n = 1 =>
                 /\ fp.mode = "r" /\ fp.file \in DOMAIN files
                 /\ pos < Len(files[fp.file].content)
            /\ pos' = pos + n
            /\ io' = [io EXCEPT !.len = n, !.result = "ok"]
  /\ UNCHANGED <<fp, files>>

\* do_close()
Close ==
  /\ fp' = NoFile
  /\ io' = [io EXCEPT !.result = "ok"]
  /\ UNCHANGED <<pos, files>>

\* do_list()
List == io' = [io EXCEPT !.result = "ok"] /\ UNCHANGED sdVars

\* upload_server_poll() takes the command ...
PollTake ==
  /\ lv = "idle" /\ queue # None
  /\ exec' = queue /\ queue' = None
  /\ lv' = "exec"
  /\ UNCHANGED <<running, stopReq, phase, ack, io, sdVars, httpVars, late>>

\* ... executes it and gives the semaphore.
PollExec ==
  /\ lv = "exec"
  /\ CASE exec = "OPEN_WRITE" -> OpenWrite
       [] exec = "WRITE"      -> Write
       [] exec = "FINISH"     -> Finish
       [] exec = "ABORT"      -> Abort
       [] exec = "OPEN_READ"  -> OpenRead
       [] exec = "READ"       -> Read
       [] exec = "CLOSE"      -> Close
       [] exec = "LIST"       -> List
  /\ exec' = None
  /\ ack' = TRUE
  /\ lv' = "idle"
  /\ UNCHANGED <<running, stopReq, phase, queue, httpVars, late>>

Poll == PollTake \/ PollExec

-----------------------------------------------------------------------------
(* LVGL task: upload_click_cb() *)

\* upload_server_start()
Start ==
  /\ lv = "idle" /\ ~running
  /\ running' = TRUE /\ stopReq' = FALSE /\ phase' = "IDLE"
  /\ UNCHANGED <<lv, exec, mailVars, io, sdVars, httpVars, late>>

\* upload_server_stop() up to httpd_stop(), which waits for the handler ...
StopBegins ==
  /\ lv = "idle" /\ running
  /\ stopReq' = TRUE
  /\ lv' = "stopping"
  /\ UNCHANGED <<exec, running, phase, mailVars, io, sdVars, httpVars, late>>

\* ... and the rest of it, with the httpd task gone.
StopEnds ==
  /\ lv = "stopping" /\ stage = "idle"
  /\ running' = FALSE /\ phase' = "IDLE" /\ stopReq' = FALSE
  /\ lv' = "idle"
  /\ UNCHANGED <<exec, mailVars, io, sdVars, httpVars, late>>

-----------------------------------------------------------------------------
(* httpd task: the handlers *)

\* A request gets past the checks of its handler, up to its first command.
Request ==
  /\ running /\ stage = "idle" /\ made < MaxRequests
  /\ made' = made + 1 /\ got' = 0
  /\ \E n \in Names, s \in Sizes :
       LET r == [id |-> made + 1, name |-> n, size |-> s]
       IN  \/ /\ stage' = "OPEN_WRITE" /\ phase' = "UPLOADING"
              /\ req' = r /\ io' = [io EXCEPT !.req = r]
           \/ /\ stage' = "OPEN_READ" /\ phase' = "DOWNLOADING"
              /\ req' = r /\ io' = [io EXCEPT !.req = r]
           \/ /\ stage' = "LIST" /\ phase' = "BUSY"
              /\ UNCHANGED <<req, io>>
  /\ sub' = "send"
  /\ UNCHANGED <<lv, exec, running, stopReq, mailVars, sdVars, late>>

\* send_cmd(): xQueueSend(); the mutant does not wait for a free slot.
PostOver ==
  /\ sub = "send"
  /\ queue' = stage
  /\ sub' = "wait"
  /\ UNCHANGED <<lv, exec, running, stopReq, phase, ack, io, sdVars, stage, req,
                 got, made, late>>

Post ==
  /\ sub = "send" /\ queue = None
  /\ queue' = stage
  /\ sub' = "wait"
  /\ UNCHANGED <<lv, exec, running, stopReq, phase, ack, io, sdVars, stage, req,
                 got, made, late>>

\* The handler returns.
Leave == stage' = "idle" /\ sub' = None /\ phase' = "IDLE"

\* The handler goes on with another command, or to the top of its loop.
Command(c) == stage' = c /\ sub' = "send" /\ UNCHANGED phase
Loop(where) == stage' = where /\ sub' = None /\ UNCHANGED phase

\* What the handlers do with the result of send_cmd().
Returned(result) ==
  \/ stage = "OPEN_WRITE" /\ IF result = "ok" THEN Loop("recv loop") ELSE Leave
  \/ stage = "WRITE" /\ IF result = "ok" THEN Loop("recv loop")
                                         ELSE Command("ABORT")
  \/ stage = "OPEN_READ" /\ IF result = "ok" THEN Loop("send loop") ELSE Leave
  \/ /\ stage = "READ"
     /\ \/ result = "ok" /\ io.len > 0 /\ Loop("send loop")
        \/ Command("CLOSE")
  \/ stage \in {"FINISH", "ABORT", "CLOSE", "LIST"} /\ Leave

\* xSemaphoreTake() succeeds; the mutant leaves the semaphore given.
AckedTwice ==
  /\ sub = "wait" /\ ack
  /\ Returned(io.result)
  /\ UNCHANGED <<lv, exec, running, stopReq, mailVars, io, sdVars, req, got,
                 made, late>>

Acked ==
  /\ sub = "wait" /\ ack
  /\ ack' = FALSE
  /\ Returned(io.result)
  /\ UNCHANGED <<lv, exec, running, stopReq, queue, io, sdVars, req, got, made,
                 late>>

\* UPLOAD_ACK_TIMEOUT_MS can pass only while the LVGL task does not poll; the
\* mutant waits for the ack without a timeout.
WaitsForAck == sub = "send" /\ queue # None

MayTimeOut ==
  \/ sub = "send" /\ queue # None
  \/ sub = "wait" /\ ~ack

Timeout ==
  /\ lv = "stopping" \/ Stalls
  /\ MayTimeOut
  /\ Returned("timeout")
  /\ late' = TRUE
  /\ UNCHANGED <<lv, exec, running, stopReq, mailVars, io, sdVars, req, got,
                 made>>

\* upload_handler(): top of the loop.
ReceiveLoop ==
  /\ stage = "recv loop"
  /\ IF stopReq THEN Command("ABORT") ELSE Loop("recv")
  /\ UNCHANGED <<lv, exec, running, stopReq, mailVars, io, sdVars, req, got,
                 made, late>>

\* Mutant: an error of the client's is taken for the end of the body.
ReceiveErrorEnds ==
  /\ stage = "recv"
  /\ \/ /\ got < req.size
        /\ got' = got + 1
        /\ io' = [io EXCEPT !.data = <<req.id, got + 1>>, !.len = 1]
        /\ Command("WRITE")
     \/ /\ IF stopReq THEN Command("ABORT") ELSE Command("FINISH")
        /\ UNCHANGED <<got, io>>
  /\ UNCHANGED <<lv, exec, running, stopReq, mailVars, sdVars, req, made, late>>

\* httpd_req_recv() straight into the mailbox: a chunk, the end of the body, or
\* an error or timeout of the client's.
Receive ==
  /\ stage = "recv"
  /\ \/ /\ got < req.size
        /\ got' = got + 1
        /\ io' = [io EXCEPT !.data = <<req.id, got + 1>>, !.len = 1]
        /\ Command("WRITE")
     \/ /\ got = req.size
        /\ IF stopReq THEN Command("ABORT") ELSE Command("FINISH")
        /\ UNCHANGED <<got, io>>
     \/ Command("ABORT") /\ UNCHANGED <<got, io>>
  /\ UNCHANGED <<lv, exec, running, stopReq, mailVars, sdVars, req, made, late>>

\* download_handler(): top of the loop.
SendLoop ==
  /\ stage = "send loop"
  /\ IF stopReq THEN Command("CLOSE") ELSE Command("READ")
  /\ UNCHANGED <<lv, exec, running, stopReq, mailVars, io, sdVars, req, got,
                 made, late>>

Handler == Post \/ Acked \/ Timeout \/ ReceiveLoop \/ Receive \/ SendLoop

-----------------------------------------------------------------------------
Next == Poll \/ Start \/ StopBegins \/ StopEnds \/ Request \/ Handler

Spec == Init /\ [][Next]_vars

\* The 10 ms timer of the LVGL task comes round, httpd runs its handler, and a
\* blocked wait times out.
Fairness ==
  /\ SF_vars(Poll)
  /\ WF_vars(StopEnds)
  /\ WF_vars(Handler)

FairSpec == Spec /\ Fairness
-----------------------------------------------------------------------------
(* Properties *)

FileNames == Names \X (0 .. MaxRequests)
Requests == [id : 0 .. MaxRequests, name : Names \cup {None},
             size : Sizes \cup {0}]

\* Every variable stays in its type.
TypeOK ==
  /\ lv \in {"idle", "exec", "stopping"}
  /\ exec \in Commands \cup {None} /\ queue \in Commands \cup {None}
  /\ running \in BOOLEAN /\ stopReq \in BOOLEAN /\ ack \in BOOLEAN
  /\ phase \in {"IDLE", "UPLOADING", "DOWNLOADING", "BUSY"}
  /\ io.req \in Requests /\ io.final \in FileNames \cup {<<>>}
  /\ io.len \in 0 .. 1 /\ io.result \in {"ok", "fail"}
  /\ fp = NoFile \/ fp.file \in FileNames
  /\ pos \in Nat
  /\ DOMAIN files \subseteq FileNames
  /\ stage \in Commands \cup {"idle", "recv loop", "recv", "send loop"}
  /\ sub \in {None, "send", "wait"}
  /\ req \in Requests /\ got \in 0 .. req.size
  /\ made \in 0 .. MaxRequests /\ late \in BOOLEAN

\* Until a command times out, the mailbox serializes the two tasks: outside
\* send_cmd() the httpd task, which reads and writes s_io there, finds neither a
\* command in the mailbox, nor one being executed, nor an ack left over; and
\* an ack that arrives is the one of the command just sent.
MailboxSerializes ==
  ~late =>
    /\ sub # "wait" => queue = None /\ exec = None /\ ~ack
    /\ sub = "wait" /\ ack => queue = None /\ exec = None

\* Until a command times out, a finished upload is on the card as it was sent,
\* all of it and in order.
SavedIsSent ==
  ~late =>
    \A f \in DOMAIN files :
      files[f].done => files[f].content =
        [k \in 1 .. files[f].by.size |-> <<files[f].by.id, k>>]

\* Until a command times out, a handler leaves no file open and no partial file
\* on the card, however its upload ended.
NothingPartial ==
  ~late /\ stage = "idle" => fp = NoFile /\ \A f \in DOMAIN files : files[f].done

\* What the card holds of an upload is all of it or nothing.
SavedWhole == SavedIsSent /\ NothingPartial

\* Whatever times out, no later request and no command left in the mailbox
\* touches a file that was saved: names are never reused, do_abort() never
\* removes another upload.
SavedFilesStay ==
  [][\A f \in DOMAIN files :
       files[f].done => f \in DOMAIN files' /\ files'[f] = files[f]]_vars

\* The button always comes back: the LVGL task waits for a handler that waits for
\* the LVGL task, but not for ever.
StopReturns == (lv = "stopping") ~> (lv # "stopping")

\* Every request is answered.
HandlerReturns == (stage # "idle") ~> (stage = "idle")

\* Neither task is left waiting for the other.
CallsReturn == StopReturns /\ HandlerReturns
=============================================================================
