------------------------ MODULE UploadServer_proofs ------------------------
(***************************************************************************)
(* Proofs about UploadServer, for every set of names and sizes and every   *)
(* number of requests, whether or not the LVGL task may stall.             *)
(***************************************************************************)
EXTENDS UploadServer, WellFoundedInduction, TLAPS

Upload == [id : 0 .. MaxRequests, name : Names \cup {None}, size : Sizes \cup {0}]
Chunk == Nat \X Nat
Entry == [by : Upload, content : Seq(Chunk), done : BOOLEAN]

\* TypeOK, without the flags, with the contents of the files and of the mailbox.
TaskTypes ==
  /\ lv \in {"idle", "exec", "stopping"}
  /\ exec \in Commands \cup {None} /\ queue \in Commands \cup {None}
  /\ stage \in Commands \cup {"idle", "recv loop", "recv", "send loop"}
  /\ sub \in {None, "send", "wait"}
  /\ made \in 0 .. MaxRequests /\ got \in Nat
  /\ req \in Upload
MailTypes ==
  io \in [req : Upload, final : FileNames \cup {<<>>}, data : Chunk \cup {<<>>},
          len : {0, 1}, result : {"ok", "fail"}]
FileTypes ==
  /\ fp \in [file : FileNames, mode : {"w", "r"}] \cup {NoFile}
  /\ DOMAIN files \subseteq FileNames
  /\ files \in [DOMAIN files -> Entry]

\* The httpd task is in send_cmd() in the stages that are commands; the LVGL
\* task has a command while it executes one; what is to be opened has a name.
Stages ==
  /\ stage \in Commands <=> sub \in {"send", "wait"}
  /\ exec # None <=> lv = "exec"
  /\ "OPEN_WRITE" \in {stage, queue, exec} => io.req.name \in Names
  /\ stage = "WRITE" => io.data \in Chunk
  /\ queue = "WRITE" \/ exec = "WRITE" => io.data \in Chunk

Types == TaskTypes /\ MailTypes /\ FileTypes /\ Stages

\* Uploads that are asked for and not yet opened.
One(b) == IF b THEN 1 ELSE 0
Opens == One(exec = "OPEN_WRITE") + One(queue = "OPEN_WRITE")
         + One(stage = "OPEN_WRITE" /\ sub = "send")

\* Files are numbered below the number of requests: there is a free name for
\* each upload to be opened.
NamesInv ==
  /\ Opens <= made
  /\ \A f \in DOMAIN files : f[2] + Opens < made

\* What do_abort() would remove is not a saved file: now, ...
Spared == io.final \in DOMAIN files => ~files[io.final].done
\* ... after the command taken, and after the one in the mailbox.
After(cmd, spared) ==
  cmd = "OPEN_WRITE" \/ (cmd \notin {"FINISH", "OPEN_READ"} /\ spared)
SparedNext == After(exec, Spared)
SparedLast == After(queue, SparedNext)

\* The handler of an upload whose file was opened has not closed it yet.
InUpload ==
  \/ stage \in {"recv loop", "recv", "WRITE"}
  \/ stage \in {"FINISH", "ABORT"} /\ sub = "send"
  \/ stage = "OPEN_WRITE" /\ sub = "wait"

\* An ABORT follows the OPEN_WRITE of its upload, however late either is, with
\* nothing in between that could leave another file in s_io; and an open file is
\* not one that was saved.
AbortInv ==
  /\ exec = "ABORT" => Spared
  /\ queue = "ABORT" => SparedNext
  /\ InUpload => SparedLast
  /\ fp.mode = "w" /\ fp.file \in DOMAIN files => ~files[fp.file].done

\* MailboxSerializes, with the command on its way.
MailInv ==
  ~late =>
    /\ sub # "wait" => queue = None /\ exec = None /\ ~ack
    /\ sub = "wait" => \/ queue = stage /\ exec = None /\ ~ack
                       \/ queue = None /\ exec = stage /\ ~ack
                       \/ queue = None /\ exec = None /\ ack

\* What the card holds of the upload being handled, until a command times out.
Sent(k) == [j \in 1 .. k |-> <<req.id, j>>]
AllDone == \A f \in DOMAIN files : files[f].done
OthersDone == \A f \in DOMAIN files : files[f].done \/ f = io.final
Clean == fp = NoFile /\ AllDone
Uploaded(k) ==
  /\ fp.mode = "w" /\ fp.file = io.final
  /\ io.final \in DOMAIN files
  /\ ~files[io.final].done
  /\ files[io.final].by = req
  /\ files[io.final].content = Sent(k)
  /\ OthersDone
Executed == sub = "wait" /\ ack

\* Stage by stage, what the LVGL task has made of the upload so far.
StageInv ==
  /\ stage = "idle" => Clean
  /\ stage = "OPEN_WRITE" =>
       /\ io.req = req /\ got = 0
       /\ IF Executed /\ io.result = "ok" THEN Uploaded(0) ELSE Clean
  /\ stage \in {"recv loop", "recv"} => Uploaded(got) /\ got <= req.size
  /\ stage = "WRITE" =>
       /\ got \in 1 .. req.size
       /\ ~Executed => Uploaded(got - 1) /\ io.data = <<req.id, got>>
       /\ Executed => IF io.result = "ok" THEN Uploaded(got) ELSE OthersDone
  /\ stage = "FINISH" =>
       IF Executed THEN Clean ELSE Uploaded(got) /\ got = req.size
  /\ stage = "ABORT" => IF Executed THEN Clean ELSE OthersDone
  /\ stage = "OPEN_READ" => IF Executed /\ io.result = "ok" THEN AllDone ELSE Clean
  /\ stage \in {"send loop", "READ"} => AllDone
  /\ stage = "CLOSE" => AllDone /\ (Executed => fp = NoFile)
  /\ stage = "LIST" => Clean
SavedInv == ~late => StageInv /\ SavedIsSent

-----------------------------------------------------------------------------
(* The names of the files. *)

\* A set of natural numbers that is not empty has a least one.
LEMMA LeastNatural ==
  ASSUME NEW T, T \subseteq Nat, T # {} PROVE \E x \in T : \A y \in T : x <= y
<1>1. PICK x \in T : \A y \in T : ~(<<y, x>> \in OpToRel(<, Nat))
  BY NatLessThanWellFounded, WFMin
<1>2. \A y \in T : ~(y < x)
  BY <1>1 DEF OpToRel
<1> QED BY <1>2

\* Three uploads at most are to be opened at once.
LEMMA OpensType == Opens \in 0 .. 3
<1>1. \A b : One(b) \in 0 .. 1
  BY DEF One
<1> QED BY <1>1, Z3 DEF Opens

LEMMA OpensTypeNext == Opens' \in 0 .. 3
<1>1. \A b : One(b) \in 0 .. 1
  BY DEF One
<1> QED BY <1>1, Z3 DEF Opens

\* How their number changes.
LEMMA OpensSteps ==
  LET x == One(exec = "OPEN_WRITE")
      y == One(queue = "OPEN_WRITE")
      z == One(stage = "OPEN_WRITE" /\ sub = "send")
  IN  /\ x' <= x /\ y' <= y /\ z' <= z => Opens' <= Opens
      /\ x' <= x /\ y' <= y => Opens' <= Opens + 1
      /\ x = 1 /\ x' = 0 /\ y' = y /\ z' = z => Opens' = Opens - 1
<1> DEFINE x == One(exec = "OPEN_WRITE")
           y == One(queue = "OPEN_WRITE")
           z == One(stage = "OPEN_WRITE" /\ sub = "send")
<1>1. \A b : One(b) \in {0, 1}
  BY DEF One
<1>2. {x, y, z, x', y', z'} \subseteq {0, 1}
  BY <1>1
<1>3. Opens = x + y + z /\ Opens' = x' + y' + z'
  BY DEF Opens
<1> HIDE DEF x, y, z
<1> QED BY <1>2, <1>3 DEF x, y, z

\* While an upload is to be opened there is a free name for it, and it keeps the
\* files numbered below the number of requests.
LEMMA FreeNameIsFree ==
  ASSUME TaskTypes, DOMAIN files \subseteq FileNames, NamesInv, exec = "OPEN_WRITE", NEW n \in Names
  PROVE  /\ FreeName(n) \in FileNames
         /\ FreeName(n) \notin DOMAIN files
         /\ FreeName(n)[2] + Opens <= made
<1> DEFINE T == {i \in 0 .. MaxRequests : <<n, i>> \notin DOMAIN files}
           k == made - Opens
           Lowest(i) == /\ <<n, i>> \notin DOMAIN files
                        /\ \A j \in 0 .. i - 1 : <<n, j>> \in DOMAIN files
<1>a. MaxRequests \in Nat /\ made \in 0 .. MaxRequests /\ Opens <= made
  BY BoundsAssumption DEF TaskTypes, NamesInv
<1>b. Opens \in Nat
  BY OpensType
<1>1. k \in 0 .. MaxRequests
  BY <1>a, <1>b
<1>2. <<n, k>> \notin DOMAIN files
  <2>1. SUFFICES ASSUME <<n, k>> \in DOMAIN files PROVE FALSE
    OBVIOUS
  <2>2. <<n, k>>[2] + Opens < made
    BY <2>1 DEF NamesInv
  <2>3. k + Opens < made
    BY <2>2
  <2> QED BY <1>a, <1>b, <2>3
<1> HIDE DEF k
<1>3. PICK x \in T : \A y \in T : x <= y
  <2>1. T \subseteq Nat /\ k \in T
    BY <1>1, <1>2, BoundsAssumption
  <2> QED BY <2>1, LeastNatural
<1>4. Lowest(x)
  <2> SUFFICES ASSUME NEW j \in 0 .. x - 1, <<n, j>> \notin DOMAIN files PROVE FALSE
    BY <1>3
  <2>1. j \in T
    BY <1>3, BoundsAssumption
  <2> QED BY <1>3, <2>1, BoundsAssumption
<1> DEFINE c == CHOOSE i \in 0 .. MaxRequests : Lowest(i)
<1>5. c \in 0 .. MaxRequests /\ Lowest(c)
  BY <1>3, <1>4
<1>6. FreeName(n) = <<n, c>>
  BY DEF FreeName
<1> HIDE DEF c
<1>7. c <= k
  BY <1>1, <1>2, <1>5, BoundsAssumption
<1>8. c + Opens <= made
  BY <1>a, <1>b, <1>5, <1>7 DEF k
<1> QED BY <1>5, <1>6, <1>8 DEF FileNames

-----------------------------------------------------------------------------
(* The types. *)

\* PollExec executes one of the eight commands.
LEMMA ExecCases ==
  ASSUME TaskTypes, Stages, PollExec
  PROVE  \/ exec = "OPEN_WRITE" /\ OpenWrite
         \/ exec = "WRITE" /\ Write
         \/ exec = "FINISH" /\ Finish
         \/ exec = "ABORT" /\ Abort
         \/ exec = "OPEN_READ" /\ OpenRead
         \/ exec = "READ" /\ Read
         \/ exec = "CLOSE" /\ Close
         \/ exec = "LIST" /\ List
BY DEF TaskTypes, Stages, PollExec, Commands, None

\* What no command touches of s_io.
LEMMA ExecKeeps ==
  ASSUME TaskTypes, MailTypes, Stages, PollExec
  PROVE  io'.req = io.req /\ io'.data = io.data
BY ExecCases DEF MailTypes, OpenWrite, Write, Finish, Abort, OpenRead, Read, Close, List

\* Adding a file, and removing one.
LEMMA WithType ==
  ASSUME FileTypes, NEW f \in FileNames, NEW e \in Entry
  PROVE  /\ DOMAIN With(f, e) = DOMAIN files \cup {f}
         /\ With(f, e) \in [DOMAIN files \cup {f} -> Entry]
         /\ With(f, e)[f] = e
         /\ \A g \in DOMAIN files : g # f => With(f, e)[g] = files[g]
BY DEF FileTypes, With

LEMMA WithoutType ==
  ASSUME FileTypes, NEW f
  PROVE  /\ DOMAIN Without(f) = DOMAIN files \ {f}
         /\ Without(f) \in [DOMAIN files \ {f} -> Entry]
         /\ \A g \in DOMAIN files : g # f => Without(f)[g] = files[g]
BY DEF FileTypes, Without

\* The numbers of requests and chunks.
LEMMA UploadNumbers ==
  /\ MaxRequests \in Nat
  /\ \A u \in Upload : u.id \in Nat /\ u.size \in Nat
<1>1. MaxRequests \in Nat /\ Sizes \subseteq Nat
  BY BoundsAssumption
<1>2. \A u \in Upload : u.id \in 0 .. MaxRequests /\ u.size \in Sizes \cup {0}
  BY DEF Upload
<1>3. \A m \in 0 .. MaxRequests : m \in Nat
  BY <1>1
<1>4. \A m \in Sizes \cup {0} : m \in Nat
  BY <1>1
<1> QED BY <1>1, <1>2, <1>3, <1>4, Zenon

\* No request yet.
LEMMA NoReqType == NoReq \in Upload
BY BoundsAssumption DEF NoReq, Upload

LEMMA InitTypes == Init => Types
<1> SUFFICES ASSUME Init PROVE Types
  OBVIOUS
<1>1. TaskTypes
  BY BoundsAssumption, NoReqType DEF Init, TaskTypes
<1>2. MailTypes
  BY NoReqType DEF Init, MailTypes
<1>3. FileTypes
  BY DEF Init, FileTypes, NoFile
<1>4. Stages
  BY DEF Init, Stages, Commands, None
<1> QED BY <1>1, <1>2, <1>3, <1>4 DEF Types

LEMMA TaskTypesStep ==
  ASSUME Types, [Next]_vars PROVE TaskTypes' /\ Stages'
<1> USE DEF Types, TaskTypes, MailTypes, Stages
<1>0. CASE UNCHANGED vars
  BY <1>0 DEF vars, mailVars, sdVars, httpVars
<1>1. CASE PollTake
  BY <1>1 DEF PollTake, httpVars, sdVars
<1>2. CASE PollExec
  BY <1>2, ExecKeeps DEF PollExec, httpVars, None, Commands
<1>3. CASE Start \/ StopBegins \/ StopEnds
  BY <1>3 DEF Start, StopBegins, StopEnds, mailVars, httpVars, sdVars
<1>4. CASE Request
  <2>1. made + 1 \in 0 .. MaxRequests /\ made' = made + 1 /\ got' = 0
    BY <1>4, BoundsAssumption DEF Request
  <2>2. PICK n \in Names, s \in Sizes :
          LET r == [id |-> made + 1, name |-> n, size |-> s]
          IN  \/ stage' = "OPEN_WRITE" /\ req' = r /\ io' = [io EXCEPT !.req = r]
              \/ stage' = "OPEN_READ" /\ req' = r /\ io' = [io EXCEPT !.req = r]
              \/ stage' = "LIST" /\ UNCHANGED <<req, io>>
    BY <1>4 DEF Request
  <2> DEFINE r == [id |-> made + 1, name |-> n, size |-> s]
  <2>3. r \in Upload /\ r.name = n
    BY <2>1 DEF Upload
  <2> HIDE DEF r
  <2>4. \/ stage' = "OPEN_WRITE" /\ req' = r /\ io' = [io EXCEPT !.req = r]
        \/ stage' = "OPEN_READ" /\ req' = r /\ io' = [io EXCEPT !.req = r]
        \/ stage' = "LIST" /\ req' = req /\ io' = io
    BY <2>2 DEF r
  <2>5. /\ req' \in Upload /\ io'.data = io.data
        /\ stage' = "OPEN_WRITE" => io'.req = r
        /\ io'.req = r \/ io'.req = io.req
    BY <2>3, <2>4
  <2>6. /\ stage' \in {"OPEN_WRITE", "OPEN_READ", "LIST"} /\ sub' = "send"
        /\ UNCHANGED <<lv, exec, queue>>
    BY <1>4, <2>4 DEF Request, mailVars
  <2> HIDE DEF MailTypes
  <2>7. TaskTypes'
    BY <2>1, <2>5, <2>6 DEF Commands
  <2>8. Stages'
    BY <1>4, <2>3, <2>5, <2>6 DEF Request, Commands, None
  <2> QED BY <2>7, <2>8
<1>5. CASE Post
  BY <1>5 DEF Post, sdVars
<1>6. CASE Acked
  BY <1>6 DEF Acked, Returned, Leave, Loop, Command, Commands, None, sdVars
<1>7. CASE Timeout
  BY <1>7 DEF Timeout, Returned, Leave, Loop, Command, Commands, None, sdVars, mailVars, MayTimeOut
<1>8. CASE ReceiveLoop
  BY <1>8 DEF ReceiveLoop, Loop, Command, Commands, None, sdVars, mailVars
<1>9. CASE Receive
  <2>1. /\ UNCHANGED <<lv, exec, queue, req, made>>
        /\ sub' = "send" /\ stage' \in {"WRITE", "FINISH", "ABORT"}
        /\ io'.req = io.req
        /\ \/ stage' = "WRITE" /\ got' = got + 1 /\ io'.data = <<req.id, got + 1>>
           \/ stage' # "WRITE" /\ UNCHANGED <<got, io>>
    BY <1>9 DEF Receive, Command, mailVars
  <2>2. req.id \in Nat
    BY UploadNumbers
  <2>a. got \in Nat
    OBVIOUS
  <2>b. \A k : <<req.id, k>> \in Chunk <=> k \in Nat
    BY <2>2 DEF Chunk
  <2> HIDE DEF Types, TaskTypes, Stages, MailTypes
  <2>c. got + 1 \in Nat
    BY <2>a
  <2>3. \/ stage' = "WRITE" /\ got' = got + 1 /\ io'.data \in Chunk
        \/ stage' # "WRITE" /\ got' = got /\ io'.data = io.data
    BY <2>1, <2>b, <2>c
  <2>4. TaskTypes'
    <3>1. got' \in Nat
      BY <2>3, <2>a, <2>c
    <3>2. stage' \in Commands
      BY <2>1 DEF Commands
    <3> QED BY <2>1, <3>1, <3>2 DEF Types, TaskTypes
  <2>5. Stages'
    BY <2>1, <2>3 DEF Commands, None, Types, Stages
  <2> QED BY <2>4, <2>5
<1>10. CASE SendLoop
  BY <1>10 DEF SendLoop, Command, Commands, None, sdVars, mailVars
<1> QED BY <1>0, <1>1, <1>2, <1>3, <1>4, <1>5, <1>6, <1>7, <1>8, <1>9, <1>10
        DEF Next, Poll, Handler

\* What the commands do to the file that is open, to the directory and to s_io.
LEMMA CommandTypes ==
  ASSUME Types, NamesInv, PollExec PROVE MailTypes' /\ FileTypes'
<1> USE DEF Types, MailTypes
<1>1. CASE exec = "OPEN_WRITE" /\ OpenWrite
  <2> DEFINE f == FreeName(io.req.name)
             new == [by |-> io.req, content |-> <<>>, done |-> FALSE]
  <2>1. f \in FileNames
    BY <1>1, FreeNameIsFree DEF Stages, FileTypes
  <2>2. new \in Entry
    BY DEF Entry
  <2>4. \/ files' = With(f, new) /\ fp' = [file |-> f, mode |-> "w"]
        \/ files' = files /\ fp' = NoFile
    BY <1>1 DEF OpenWrite
  <2>5. io' = [io EXCEPT !.final = f, !.result = "ok"]
        \/ io' = [io EXCEPT !.final = f, !.result = "fail"]
    BY <1>1 DEF OpenWrite
  <2> HIDE DEF f, new
  <2>6. MailTypes'
    BY <2>1, <2>5
  <2>7. FileTypes'
    <3>1. CASE files' = With(f, new) /\ fp' = [file |-> f, mode |-> "w"]
      <4>1. DOMAIN files' = DOMAIN files \cup {f} /\ files' \in [DOMAIN files \cup {f} -> Entry]
        BY <2>1, <2>2, <3>1, WithType
      <4> QED BY <2>1, <3>1, <4>1 DEF FileTypes
    <3>2. CASE files' = files /\ fp' = NoFile
      BY <3>2 DEF FileTypes
    <3> QED BY <2>4, <3>1, <3>2
  <2> QED BY <2>6, <2>7
<1>2. CASE exec = "WRITE" /\ Write
  <2>1. CASE files' = [files EXCEPT ![fp.file].content = Append(@, io.data)]
             /\ fp.file \in DOMAIN files
    <3> DEFINE e == [files[fp.file] EXCEPT !.content = Append(@, io.data)]
    <3>1. files[fp.file] \in Entry /\ io.data \in Chunk
      BY <1>2, <2>1 DEF FileTypes, Stages
    <3>2. Append(files[fp.file].content, io.data) \in Seq(Chunk)
      BY <3>1 DEF Entry
    <3>3. e \in Entry
      BY <3>1, <3>2 DEF Entry
    <3>4. files' = [files EXCEPT ![fp.file] = e]
      BY <2>1
    <3>5. DOMAIN files' = DOMAIN files /\ files' \in [DOMAIN files -> Entry]
      BY <3>3, <3>4 DEF FileTypes
    <3>6. FileTypes'
      BY <1>2, <3>5 DEF FileTypes, Write, sdVars
    <3> QED BY <1>2, <3>6 DEF Write
  <2>2. CASE UNCHANGED sdVars
    BY <1>2, <2>2 DEF Write, sdVars, FileTypes
  <2> QED BY <1>2, <2>1, <2>2 DEF Write
<1>3. CASE exec = "FINISH" /\ Finish
  <2>1. CASE files' = [files EXCEPT ![fp.file].done = TRUE] /\ fp.file \in DOMAIN files
    <3> DEFINE e == [files[fp.file] EXCEPT !.done = TRUE]
    <3>1. e \in Entry
      BY <2>1 DEF FileTypes, Entry
    <3>2. files' = [files EXCEPT ![fp.file] = e]
      BY <2>1
    <3>3. DOMAIN files' = DOMAIN files /\ files' \in [DOMAIN files -> Entry]
      BY <3>1, <3>2 DEF FileTypes
    <3>4. FileTypes'
      BY <1>3, <3>3 DEF FileTypes, Finish
    <3> QED BY <1>3, <3>4 DEF Finish
  <2>2. CASE UNCHANGED files
    BY <1>3, <2>2 DEF Finish, FileTypes
  <2> QED BY <1>3, <2>1, <2>2 DEF Finish
<1>4. CASE exec = "ABORT" /\ Abort
  <2>1. FileTypes'
    BY <1>4, WithoutType DEF Abort, FileTypes
  <2> QED BY <1>4, <2>1 DEF Abort
<1>5. CASE exec = "OPEN_READ" /\ OpenRead
  <2>1. PICK i \in 0 .. MaxRequests :
          LET f == <<io.req.name, i>>
          IN  \/ f \in DOMAIN files /\ fp' = [file |-> f, mode |-> "r"]
                /\ io' = [io EXCEPT !.final = f, !.result = "ok"]
              \/ fp' = NoFile /\ io' = [io EXCEPT !.result = "fail"]
    BY <1>5 DEF OpenRead
  <2> DEFINE f == <<io.req.name, i>>
  <2>2. \/ f \in FileNames /\ fp' = [file |-> f, mode |-> "r"]
           /\ io' = [io EXCEPT !.final = f, !.result = "ok"]
        \/ fp' = NoFile /\ io' = [io EXCEPT !.result = "fail"]
    BY <2>1 DEF FileTypes
  <2> HIDE DEF f
  <2>3. FileTypes'
    BY <1>5, <2>2 DEF OpenRead, FileTypes
  <2> QED BY <2>2, <2>3
<1>6. CASE exec = "READ" /\ Read
  <2>1. io' = [io EXCEPT !.len = 0, !.result = "fail"]
        \/ \E n \in {0, 1} : io' = [io EXCEPT !.len = n, !.result = "ok"]
    BY <1>6 DEF Read
  <2>2. \E n \in {0, 1}, r \in {"ok", "fail"} : io' = [io EXCEPT !.len = n, !.result = r]
    BY <2>1
  <2>3. MailTypes'
    BY <2>2
  <2> QED BY <1>6, <2>3 DEF Read, FileTypes
<1>7. CASE exec = "CLOSE" /\ Close
  BY <1>7 DEF Close, FileTypes
<1>8. CASE exec = "LIST" /\ List
  BY <1>8 DEF List, FileTypes, sdVars
<1> QED BY <1>1, <1>2, <1>3, <1>4, <1>5, <1>6, <1>7, <1>8, ExecCases

\* Outside the commands only s_io changes, by the handlers.
LEMMA TypesStep == ASSUME Types, NamesInv, [Next]_vars PROVE Types'
<1>1. TaskTypes' /\ Stages'
  BY TaskTypesStep
<1>2. MailTypes' /\ FileTypes'
  <2>1. CASE PollExec
    BY <2>1, CommandTypes
  <2>2. CASE Request
    <3>1. io' = io \/ \E n \in Names, s \in Sizes :
            io' = [io EXCEPT !.req = [id |-> made + 1, name |-> n, size |-> s]]
      BY <2>2 DEF Request
    <3>2. made + 1 \in 0 .. MaxRequests
      BY <2>2, UploadNumbers DEF Request, Types, TaskTypes
    <3>3. \A n \in Names, s \in Sizes : [id |-> made + 1, name |-> n, size |-> s] \in Upload
      BY <3>2 DEF Upload
    <3>4. MailTypes'
      BY <3>1, <3>3 DEF Types, MailTypes
    <3> QED BY <2>2, <3>4 DEF Request, sdVars, Types, FileTypes
  <2>3. CASE Receive
    <3>1. io' = io \/ io' = [io EXCEPT !.data = <<req.id, got + 1>>, !.len = 1]
      BY <2>3 DEF Receive
    <3>2. <<req.id, got + 1>> \in Chunk
      <4>1. req.id \in Nat
        BY UploadNumbers DEF Types, TaskTypes
      <4>2. got + 1 \in Nat
        <5>1. got \in Nat
          BY DEF Types, TaskTypes
        <5> QED BY <5>1
      <4> QED BY <4>1, <4>2 DEF Chunk
    <3> DEFINE d == <<req.id, got + 1>>
    <3> HIDE DEF d
    <3>3. io' = io \/ io' = [io EXCEPT !.data = d, !.len = 1]
      BY <3>1 DEF d
    <3>4. d \in Chunk
      BY <3>2 DEF d
    <3>5. MailTypes'
      <4>1. MailTypes
        BY DEF Types
      <4> QED BY <3>3, <3>4, <4>1 DEF MailTypes
    <3> QED BY <2>3, <3>5 DEF Receive, sdVars, Types, FileTypes
  <2>4. CASE ~PollExec /\ ~Request /\ ~Receive
    BY <2>4 DEF Next, Poll, Handler, PollTake, Start, StopBegins, StopEnds, Post, Acked,
       Timeout, ReceiveLoop, SendLoop, vars, sdVars, Types, MailTypes, FileTypes
  <2> QED BY <2>1, <2>2, <2>3, <2>4
<1> QED BY <1>1, <1>2 DEF Types

-----------------------------------------------------------------------------
(* Saved files stay. *)

\* NamesInv survives when no file is added and no upload asked for.
LEMMA NamesKept ==
  ASSUME Types, NamesInv, made' = made, Opens' <= Opens, DOMAIN files' \subseteq DOMAIN files
  PROVE  NamesInv'
<1>1. made \in Nat /\ Opens \in Nat
  <2>1. \A m \in 0 .. MaxRequests : m \in Nat
    BY UploadNumbers
  <2>2. \A m \in 0 .. 3 : m \in Nat
    OBVIOUS
  <2> QED BY <2>1, <2>2, OpensType DEF Types, TaskTypes
<1>2. Opens' \in Nat
  BY OpensType DEF Opens, One
<1>3. \A f \in DOMAIN files : f[2] \in Nat
  BY DEF Types, FileTypes, FileNames
<1> HIDE DEF Opens
<1>4. \A f \in DOMAIN files : f[2] + Opens < made
  BY DEF NamesInv
<1>5. \A f \in DOMAIN files' : f[2] + Opens' < made'
  BY <1>1, <1>2, <1>3, <1>4
<1>6. Opens' <= made'
  BY <1>1, <1>2 DEF NamesInv
<1> QED BY <1>5, <1>6 DEF NamesInv

\* What the commands do to the files, and to what is open and named in s_io.
LEMMA CommandEffect ==
  ASSUME Types, NamesInv, AbortInv, PollExec
  PROVE  /\ exec = "OPEN_WRITE" \/ DOMAIN files' \subseteq DOMAIN files
         /\ \A f \in DOMAIN files : files[f].done => f \in DOMAIN files' /\ files'[f] = files[f]
         /\ SparedNext => Spared'
         /\ fp'.mode = "w" /\ fp'.file \in DOMAIN files' => ~files'[fp'.file].done
<1> USE DEF Types, FileTypes, NoFile, None
<1>1. CASE exec = "OPEN_WRITE" /\ OpenWrite
  <2> DEFINE f == FreeName(io.req.name)
             new == [by |-> io.req, content |-> <<>>, done |-> FALSE]
  <2>1. f \in FileNames /\ f \notin DOMAIN files
    BY <1>1, FreeNameIsFree DEF Stages
  <2>2. new \in Entry /\ ~new.done
    BY DEF Entry, MailTypes
  <2>a. \/ files' = With(f, new) /\ fp' = [file |-> f, mode |-> "w"]
           /\ io' = [io EXCEPT !.final = f, !.result = "ok"]
        \/ files' = files /\ fp' = NoFile /\ io' = [io EXCEPT !.final = f, !.result = "fail"]
    BY <1>1 DEF OpenWrite
  <2> HIDE DEF f, new
  <2>3. /\ io'.final = f
        /\ \/ files' = With(f, new) /\ fp'.file = f
           \/ files' = files /\ fp' = NoFile
    <3> HIDE DEF Types, FileTypes, NoFile, None
    <3>1. io'.final = f
      BY <2>a DEF Types, MailTypes
    <3> QED BY <2>a, <3>1
  <2>4. CASE files' = With(f, new) /\ fp'.file = f
    <3>1. /\ DOMAIN files' = DOMAIN files \cup {f}
          /\ ~files'[f].done
          /\ \A g \in DOMAIN files : g # f => files'[g] = files[g]
      <4> HIDE DEF FileTypes
      <4>1. FileTypes
        BY DEF Types
      <4>2. /\ DOMAIN With(f, new) = DOMAIN files \cup {f}
            /\ With(f, new)[f] = new
            /\ \A g \in DOMAIN files : g # f => With(f, new)[g] = files[g]
        BY <2>1, <2>2, <4>1, WithType
      <4> QED BY <2>2, <2>4, <4>2
    <3> QED BY <1>1, <2>1, <2>3, <2>4, <3>1 DEF Spared
  <2>5. CASE files' = files /\ fp' = NoFile
    BY <1>1, <2>1, <2>3, <2>5 DEF Spared
  <2> QED BY <2>3, <2>4, <2>5
<1>2. CASE exec = "WRITE" /\ Write
  <2>1. CASE /\ fp.mode = "w" /\ fp.file \in DOMAIN files
             /\ files' = [files EXCEPT ![fp.file].content = Append(@, io.data)]
             /\ UNCHANGED fp
    <3>1. ~files[fp.file].done
      BY <2>1 DEF AbortInv
    <3>2. /\ DOMAIN files' = DOMAIN files
          /\ \A g \in DOMAIN files : files'[g].done = files[g].done
          /\ \A g \in DOMAIN files : g # fp.file => files'[g] = files[g]
      BY <2>1 DEF Entry
    <3>3. io'.final = io.final
      BY <1>2 DEF Write, MailTypes
    <3> QED BY <1>2, <2>1, <3>1, <3>2, <3>3 DEF Spared, SparedNext, After
  <2>2. CASE UNCHANGED sdVars
    BY <1>2, <2>2 DEF Write, sdVars, AbortInv, Spared, SparedNext, After, MailTypes
  <2> QED BY <1>2, <2>1, <2>2 DEF Write
<1>3. CASE exec = "FINISH" /\ Finish
  <2>1. fp' = NoFile /\ ~SparedNext
    BY <1>3 DEF Finish, SparedNext, After
  <2>2. CASE /\ fp.mode = "w" /\ fp.file \in DOMAIN files
             /\ files' = [files EXCEPT ![fp.file].done = TRUE]
    <3>1. ~files[fp.file].done
      BY <2>2 DEF AbortInv
    <3> QED BY <2>1, <2>2, <3>1
  <2>3. CASE UNCHANGED files
    BY <2>1, <2>3
  <2> QED BY <1>3, <2>2, <2>3 DEF Finish
<1>4. CASE exec = "ABORT" /\ Abort
  <2>1. Spared
    BY <1>4 DEF AbortInv
  <2>2. io'.final = io.final /\ fp' = NoFile
    BY <1>4 DEF Abort, MailTypes
  <2>3. /\ DOMAIN files' = DOMAIN files \ {io.final}
        /\ \A g \in DOMAIN files : g # io.final => files'[g] = files[g]
    BY <1>4, WithoutType DEF Abort
  <2> QED BY <1>4, <2>1, <2>2, <2>3 DEF Spared
<1>5. CASE exec = "OPEN_READ" /\ OpenRead
  BY <1>5 DEF OpenRead, SparedNext, After
<1>6. CASE exec = "READ" /\ Read
  BY <1>6 DEF Read, AbortInv, Spared, SparedNext, After, MailTypes
<1>7. CASE exec = "CLOSE" /\ Close
  BY <1>7 DEF Close, AbortInv, Spared, SparedNext, After, MailTypes
<1>8. CASE exec = "LIST" /\ List
  BY <1>8 DEF List, sdVars, AbortInv, Spared, SparedNext, After, MailTypes
<1> QED BY <1>1, <1>2, <1>3, <1>4, <1>5, <1>6, <1>7, <1>8, ExecCases

LEMMA NamesStep == ASSUME Types, NamesInv, AbortInv, [Next]_vars PROVE NamesInv'
<1>a. \A b : One(b) \in {0, 1} /\ (~b => One(b) = 0) /\ (b => One(b) = 1)
  BY DEF One
<1>b. made \in Nat
  <2>1. \A m \in 0 .. MaxRequests : m \in Nat
    BY UploadNumbers
  <2> QED BY <2>1 DEF Types, TaskTypes
<1>c. Opens \in Nat /\ Opens' \in Nat
  BY OpensType, OpensTypeNext
<1>0. CASE UNCHANGED vars
  BY <1>0 DEF vars, mailVars, sdVars, httpVars, NamesInv, Opens
<1>1. CASE PollTake
  <2>1. exec = None
    BY <1>1 DEF PollTake, Types, Stages
  <2>2. Opens' = Opens
    BY <1>1, <2>1, <1>a DEF PollTake, httpVars, Opens, None
  <2> QED BY <1>1, <2>2 DEF PollTake, sdVars, httpVars, NamesInv
<1>2. CASE PollExec
  <2>1. UNCHANGED <<queue, stage, sub, made>> /\ exec' = None
    BY <1>2 DEF PollExec, httpVars
  <2>2. CASE exec = "OPEN_WRITE"
    <3> DEFINE f == FreeName(io.req.name)
    <3>1. f \in FileNames /\ f[2] + Opens <= made
      BY <2>2, FreeNameIsFree DEF Types, Stages, FileTypes
    <3> HIDE DEF f
    <3>2. DOMAIN files' \subseteq DOMAIN files \cup {f}
      BY <1>2, <2>2 DEF PollExec, OpenWrite, With, f
    <3>3. Opens' = Opens - 1
      <4>1. /\ One(exec = "OPEN_WRITE") = 1 /\ One(exec' = "OPEN_WRITE") = 0
            /\ One(queue' = "OPEN_WRITE") = One(queue = "OPEN_WRITE")
            /\ One(stage' = "OPEN_WRITE" /\ sub' = "send") = One(stage = "OPEN_WRITE" /\ sub = "send")
        BY <2>1, <2>2, <1>a DEF None
      <4> QED BY <4>1, OpensSteps
    <3>4. made \in Nat /\ Opens \in Nat /\ f[2] \in Nat
      BY <1>b, <1>c, <3>1 DEF FileNames
    <3>5. \A g \in DOMAIN files : g[2] \in Nat /\ g[2] + Opens < made
      BY DEF Types, FileTypes, FileNames, NamesInv
    <3>6. \A g \in DOMAIN files' : g[2] + (Opens - 1) < made
      BY <3>1, <3>2, <3>4, <3>5
    <3>7. Opens - 1 <= made
      BY <3>4 DEF NamesInv
    <3> QED BY <2>1, <3>3, <3>6, <3>7 DEF NamesInv
  <2>3. CASE exec # "OPEN_WRITE"
    <3>1. Opens' = Opens
      BY <2>1, <2>3, <1>a DEF Opens, None
    <3>2. Opens <= Opens
      BY OpensType
    <3> QED BY <1>2, <2>1, <2>3, <3>1, <3>2, CommandEffect, NamesKept
  <2> QED BY <2>2, <2>3
<1>3. CASE Request
  <2>1. stage # "OPEN_WRITE" /\ made' = made + 1 /\ UNCHANGED <<exec, queue, files>>
    BY <1>3 DEF Request, mailVars, sdVars
  <2>2. Opens' <= Opens + 1
    BY <2>1, <1>a, OpensSteps
  <2>3. made \in Nat /\ Opens \in Nat /\ Opens' \in Nat
    BY <1>b, <1>c
  <2>4. \A g \in DOMAIN files : g[2] \in Nat /\ g[2] + Opens < made
    BY DEF Types, FileTypes, FileNames, NamesInv
  <2> HIDE DEF Opens
  <2>5. \A g \in DOMAIN files : g[2] + Opens' < made + 1
    BY <2>2, <2>3, <2>4
  <2>6. Opens' <= made + 1
    BY <2>2, <2>3 DEF NamesInv
  <2> QED BY <2>1, <2>5, <2>6 DEF NamesInv
<1>4. CASE Post
  <2>1. Opens' = Opens
    BY <1>4, <1>a DEF Post, Opens, None
  <2> QED BY <1>4, <2>1 DEF Post, sdVars, NamesInv
<1>5. CASE Start \/ StopBegins \/ StopEnds
  BY <1>5 DEF Start, StopBegins, StopEnds, mailVars, sdVars, httpVars, NamesInv, Opens
<1>6. CASE Acked \/ Timeout \/ ReceiveLoop \/ Receive \/ SendLoop
  <2>1. /\ UNCHANGED <<exec, queue, made, files>>
        /\ stage' = "OPEN_WRITE" => sub' # "send"
    BY <1>6 DEF Acked, Timeout, ReceiveLoop, Receive, SendLoop, Returned, Leave, Loop, Command,
       mailVars, sdVars
  <2>2. Opens' <= Opens
    <3>1. One(stage' = "OPEN_WRITE" /\ sub' = "send") = 0
      BY <2>1, <1>a
    <3>2. One(stage = "OPEN_WRITE" /\ sub = "send") \in {0, 1}
      BY <1>a
    <3>3. One(exec = "OPEN_WRITE") \in {0, 1} /\ One(queue = "OPEN_WRITE") \in {0, 1}
      BY <1>a
    <3> QED BY <2>1, <3>1, <3>2, <3>3, OpensSteps
  <2> QED BY <2>1, <2>2, NamesKept
<1> QED BY <1>0, <1>1, <1>2, <1>3, <1>4, <1>5, <1>6 DEF Next, Poll, Handler

LEMMA AbortStep == ASSUME Types, NamesInv, AbortInv, [Next]_vars PROVE AbortInv'
<1> DEFINE FpOk == fp.mode = "w" /\ fp.file \in DOMAIN files => ~files[fp.file].done
<1>1. CASE PollTake
  <2>1. exec = None /\ exec' = queue /\ queue' = None
    BY <1>1 DEF PollTake, Types, Stages
  <2>2. UNCHANGED <<io, fp, files, stage, sub>>
    BY <1>1 DEF PollTake, sdVars, httpVars
  <2> QED BY <2>1, <2>2 DEF AbortInv, Spared, SparedNext, SparedLast, After, InUpload, None
<1>2. CASE PollExec
  <2>1. exec' = None /\ UNCHANGED <<queue, stage, sub>>
    BY <1>2 DEF PollExec, httpVars
  <2>2. (SparedNext => Spared') /\ FpOk'
    BY <1>2, CommandEffect
  <2>3. SparedNext' <=> Spared'
    BY <2>1 DEF SparedNext, After, None
  <2> QED BY <2>1, <2>2, <2>3 DEF AbortInv, SparedLast, After, InUpload, None
<1>3. CASE Post
  <2>1. /\ queue = None /\ queue' = stage /\ sub = "send" /\ sub' = "wait"
        /\ UNCHANGED <<exec, io, fp, files, stage>>
    BY <1>3 DEF Post, sdVars
  <2> QED BY <2>1 DEF AbortInv, Spared, SparedNext, SparedLast, After, InUpload, None
<1>4. CASE UNCHANGED vars \/ (Next /\ ~PollTake /\ ~PollExec /\ ~Post)
  <2>1. UNCHANGED <<exec, queue, fp, files>>
    BY <1>4 DEF vars, mailVars, sdVars, Next, Poll, Handler, Start, StopBegins, StopEnds,
       Request, Acked, Timeout, ReceiveLoop, Receive, SendLoop
  <2>2. io'.final = io.final
    BY <1>4 DEF vars, Next, Poll, Handler, Start, StopBegins, StopEnds, Request, Acked,
       Timeout, ReceiveLoop, Receive, SendLoop, Types, MailTypes
  <2>3. InUpload' => InUpload
    <3>1. CASE UNCHANGED vars \/ Start \/ StopBegins \/ StopEnds
      BY <3>1 DEF vars, httpVars, Start, StopBegins, StopEnds, InUpload
    <3>2. CASE Request
      BY <3>2 DEF Request, InUpload
    <3>3. CASE Acked \/ Timeout
      BY <3>3 DEF Acked, Timeout, MayTimeOut, Returned, Leave, Loop, Command, InUpload
    <3>4. CASE ReceiveLoop \/ Receive \/ SendLoop
      BY <3>4 DEF ReceiveLoop, Receive, SendLoop, Loop, Command, InUpload
    <3> QED BY <1>4, <3>1, <3>2, <3>3, <3>4 DEF Next, Poll, Handler
  <2> QED BY <2>1, <2>2, <2>3 DEF AbortInv, Spared, SparedNext, SparedLast, After
<1> QED BY <1>1, <1>2, <1>3, <1>4

\* The invariant that holds whatever times out.
LateInv == Types /\ NamesInv /\ AbortInv

LEMMA InitLate == Init => LateInv
<1> SUFFICES ASSUME Init PROVE LateInv
  OBVIOUS
<1>1. Types
  BY InitTypes
<1>2. exec = None /\ queue = None /\ stage = "idle" /\ sub = None /\ made = 0
      /\ files = <<>> /\ fp = NoFile
  BY DEF Init
<1>3. DOMAIN files = {}
  BY <1>2
<1>4. Opens = 0
  BY <1>2 DEF Opens, One, None
<1>5. NamesInv
  BY <1>2, <1>3, <1>4 DEF NamesInv
<1>6. AbortInv
  BY <1>2, <1>3 DEF AbortInv, Spared, SparedNext, SparedLast, After, InUpload, None, NoFile
<1> QED BY <1>1, <1>5, <1>6 DEF LateInv

LEMMA LateStep == LateInv /\ [Next]_vars => LateInv'
BY TypesStep, NamesStep, AbortStep DEF LateInv

\* No step removes a saved file or changes it.
LEMMA NoStepTouches ==
  ASSUME LateInv, [Next]_vars, NEW f \in DOMAIN files, files[f].done
  PROVE  f \in DOMAIN files' /\ files'[f] = files[f]
<1>1. CASE PollExec
  BY <1>1, CommandEffect DEF LateInv
<1>2. CASE ~PollExec
  <2>1. UNCHANGED files
    BY <1>2 DEF vars, mailVars, sdVars, Next, Poll, Handler, PollTake, Post, Start, StopBegins,
       StopEnds, Request, Acked, Timeout, ReceiveLoop, Receive, SendLoop
  <2> QED BY <2>1
<1> QED BY <1>1, <1>2

(* What the server has saved stays as it is, whichever of its commands time *)
(* out, are executed later or are answered by the ack of another: no name   *)
(* is given twice, and do_abort() removes no file but one that is not yet   *)
(* saved (do_abort(), do_finish(), do_open_write() of upload_server.c).     *)
THEOREM SavedStays == Spec => SavedFilesStay
<1>1. LateInv /\ [Next]_vars =>
        [\A f \in DOMAIN files : files[f].done => f \in DOMAIN files' /\ files'[f] = files[f]]_vars
  BY NoStepTouches
<1> QED BY <1>1, InitLate, LateStep, PTL DEF Spec, SavedFilesStay

-----------------------------------------------------------------------------
(* The mailbox, until a command times out. *)

LEMMA MailStep == ASSUME Types, MailInv, [Next]_vars PROVE MailInv'
<1>1. CASE UNCHANGED vars \/ Start \/ StopBegins \/ StopEnds
  BY <1>1 DEF vars, mailVars, httpVars, Start, StopBegins, StopEnds, MailInv
<1>2. CASE PollTake
  BY <1>2 DEF PollTake, httpVars, MailInv, Types, Stages
<1>3. CASE PollExec
  BY <1>3 DEF PollExec, httpVars, MailInv, Types, Stages
<1>4. CASE Request
  <2>1. sub # "wait" /\ sub' = "send" /\ UNCHANGED <<queue, ack, exec, late>>
    BY <1>4 DEF Request, mailVars, Types, Stages, Commands
  <2> QED BY <2>1 DEF MailInv
<1>5. CASE Post
  BY <1>5 DEF Post, MailInv, None
<1>6. CASE Acked
  <2>1. /\ sub = "wait" /\ ack /\ ~ack' /\ UNCHANGED <<queue, exec, late>>
        /\ sub' # "wait"
    BY <1>6 DEF Acked, Returned, Leave, Loop, Command, None
  <2> QED BY <2>1 DEF MailInv
<1>7. CASE Timeout
  BY <1>7 DEF Timeout, MailInv
<1>8. CASE ReceiveLoop \/ Receive \/ SendLoop
  <2>1. sub # "wait" /\ UNCHANGED <<queue, ack, exec, late>>
    BY <1>8 DEF ReceiveLoop, Receive, SendLoop, mailVars, Types, Stages, Commands
  <2>2. sub' # "wait"
    BY <1>8 DEF ReceiveLoop, Receive, SendLoop, Loop, Command, None
  <2> QED BY <2>1, <2>2 DEF MailInv
<1> QED BY <1>1, <1>2, <1>3, <1>4, <1>5, <1>6, <1>7, <1>8 DEF Next, Poll, Handler

LEMMA InitMail == Init => MailInv
BY DEF Init, MailInv, None

(* Until a command times out, neither task touches s_io or the mailbox while *)
(* the other one may: the queue and the semaphore of upload_server.c order   *)
(* the two, and every ack is that of the command just sent (send_cmd()).     *)
THEOREM MailboxIsSerial == Spec => []MailboxSerializes
<1>1. LateInv /\ MailInv /\ [Next]_vars => MailInv'
  BY MailStep DEF LateInv
<1>2. LateInv /\ MailInv => MailboxSerializes
  BY DEF LateInv, Types, TaskTypes, Stages, MailInv, MailboxSerializes, None, Commands
<1> QED BY <1>1, <1>2, InitLate, LateStep, InitMail, PTL DEF Spec

-----------------------------------------------------------------------------
(* What is saved, until a command times out. *)

LEMMA SentGrows ==
  /\ Sent(0) = <<>>
  /\ \A k \in Nat : k >= 1 => Append(Sent(k - 1), <<req.id, k>>) = Sent(k)
<1>1. Sent(0) = <<>>
  BY DEF Sent
<1>2. ASSUME NEW k \in Nat, k >= 1 PROVE Append(Sent(k - 1), <<req.id, k>>) = Sent(k)
  <2> DEFINE s == Sent(k - 1)
             t == Append(s, <<req.id, k>>)
  <2>1. s \in Seq({req.id} \X Nat) /\ Len(s) = k - 1 /\ \A j \in 1 .. k - 1 : s[j] = <<req.id, j>>
    BY <1>2 DEF Sent
  <2> HIDE DEF s
  <2>2. /\ t \in Seq({req.id} \X Nat) /\ Len(t) = k
        /\ \A j \in 1 .. k : t[j] = IF j = k THEN <<req.id, k>> ELSE s[j]
    BY <1>2, <2>1
  <2> HIDE DEF t
  <2>3. t = [j \in 1 .. k |-> t[j]]
    BY <2>2
  <2>4. ASSUME NEW j \in 1 .. k PROVE t[j] = <<req.id, j>>
    <3>1. CASE j = k
      BY <2>2, <3>1
    <3>2. CASE j # k
      <4>1. j \in 1 .. k - 1
        BY <1>2, <3>2
      <4>2. t[j] = s[j]
        BY <2>2, <3>2
      <4> QED BY <2>1, <4>1, <4>2
    <3> QED BY <3>1, <3>2
  <2>5. t = Sent(k)
    BY <2>3, <2>4 DEF Sent
  <2> QED BY <2>5 DEF t, s
<1> QED BY <1>1, <1>2

\* The commands of a handler whose mailbox serializes.
LEMMA ExecSaved ==
  ASSUME LateInv, MailInv, SavedInv, PollExec, ~late PROVE StageInv' /\ SavedIsSent'
<1>1. /\ exec = stage /\ sub = "wait" /\ ~Executed /\ Executed'
      /\ UNCHANGED <<stage, req, got>> /\ io'.req = io.req
  BY ExecKeeps DEF PollExec, httpVars, MailInv, Executed, LateInv, Types, Stages
<1>2. StageInv /\ SavedIsSent
  BY DEF SavedInv
<1>3. CASE exec = "OPEN_WRITE" /\ OpenWrite
  <2> DEFINE f == FreeName(io.req.name)
             new == [by |-> io.req, content |-> <<>>, done |-> FALSE]
  <2>1. f \in FileNames /\ f \notin DOMAIN files
    BY <1>3, FreeNameIsFree DEF LateInv, Types, Stages, FileTypes
  <2>2. io.req = req /\ got = 0 /\ Clean
    BY <1>1, <1>2, <1>3 DEF StageInv
  <2>3. new \in Entry /\ ~new.done /\ new.by = req /\ new.content = <<>>
    BY <2>2 DEF Entry, LateInv, Types, MailTypes
  <2>4. \/ files' = With(f, new) /\ fp' = [file |-> f, mode |-> "w"]
           /\ io' = [io EXCEPT !.final = f, !.result = "ok"]
        \/ files' = files /\ fp' = NoFile /\ io' = [io EXCEPT !.final = f, !.result = "fail"]
    BY <1>3 DEF OpenWrite
  <2> HIDE DEF f, new
  <2>5. CASE files' = With(f, new) /\ fp' = [file |-> f, mode |-> "w"]
             /\ io' = [io EXCEPT !.final = f, !.result = "ok"]
    <3>1. /\ DOMAIN files' = DOMAIN files \cup {f} /\ files'[f] = new
          /\ \A g \in DOMAIN files : g # f => files'[g] = files[g]
      <4>1. FileTypes
        BY DEF LateInv, Types
      <4>2. /\ DOMAIN With(f, new) = DOMAIN files \cup {f}
            /\ With(f, new)[f] = new
            /\ \A g \in DOMAIN files : g # f => With(f, new)[g] = files[g]
        BY <2>1, <2>3, <4>1, WithType
      <4> QED BY <2>5, <4>2
    <3>2. io'.final = f /\ io'.result = "ok" /\ fp'.mode = "w" /\ fp'.file = f
      BY <2>5 DEF LateInv, Types, MailTypes
    <3>3. Sent(0) = <<>> /\ Sent(0)' = Sent(0)
      BY <1>1, SentGrows DEF Sent
    <3>4. OthersDone'
      BY <2>1, <2>2, <3>1, <3>2 DEF OthersDone, Clean, AllDone
    <3>5. Uploaded(0)'
      BY <1>1, <2>3, <3>1, <3>2, <3>3, <3>4 DEF Uploaded
    <3>6. SavedIsSent'
      BY <1>2, <2>1, <2>3, <3>1 DEF SavedIsSent
    <3> QED BY <1>1, <1>3, <2>2, <3>2, <3>5, <3>6 DEF StageInv
  <2>6. CASE files' = files /\ fp' = NoFile /\ io' = [io EXCEPT !.final = f, !.result = "fail"]
    <3>1. io'.result = "fail"
      BY <2>6 DEF LateInv, Types, MailTypes
    <3>2. Clean'
      BY <2>2, <2>6 DEF Clean, AllDone
    <3>3. SavedIsSent'
      BY <1>2, <2>6 DEF SavedIsSent
    <3> QED BY <1>1, <1>3, <2>2, <3>1, <3>2, <3>3 DEF StageInv
  <2> QED BY <2>4, <2>5, <2>6
<1>4. CASE exec = "WRITE" /\ Write
  <2>1. Uploaded(got - 1) /\ io.data = <<req.id, got>> /\ got \in 1 .. req.size
    BY <1>1, <1>2, <1>4 DEF StageInv
  <2>2. CASE UNCHANGED sdVars /\ io' = [io EXCEPT !.result = "fail"]
    <3>1. io'.result = "fail" /\ io'.final = io.final /\ UNCHANGED files
      BY <2>2 DEF sdVars, LateInv, Types, MailTypes
    <3>2. OthersDone' /\ SavedIsSent'
      BY <1>2, <2>1, <3>1 DEF Uploaded, OthersDone, SavedIsSent
    <3> QED BY <1>1, <1>4, <2>1, <3>1, <3>2 DEF StageInv
  <2>3. CASE /\ fp.mode = "w" /\ fp.file \in DOMAIN files
             /\ files' = [files EXCEPT ![fp.file].content = Append(@, io.data)]
             /\ io' = [io EXCEPT !.result = "ok"]
             /\ UNCHANGED fp
    <3>1. io'.result = "ok" /\ io'.final = io.final
      BY <2>3 DEF LateInv, Types, MailTypes
    <3>2. /\ DOMAIN files' = DOMAIN files
          /\ \A g \in DOMAIN files : g # fp.file => files'[g] = files[g]
          /\ files'[fp.file].done = files[fp.file].done
          /\ files'[fp.file].by = files[fp.file].by
          /\ files'[fp.file].content = Append(files[fp.file].content, io.data)
      BY <2>3 DEF LateInv, Types, FileTypes, Entry
    <3>3. got \in Nat /\ got >= 1
      <4>1. req.size \in Nat
        BY UploadNumbers DEF LateInv, Types, TaskTypes
      <4> QED BY <2>1, <4>1
    <3>4. files'[fp.file].content = Sent(got)
      BY <2>1, <3>2, <3>3, SentGrows DEF Uploaded
    <3>5. Sent(got)' = Sent(got)
      BY <1>1 DEF Sent
    <3>6. Uploaded(got)'
      BY <1>1, <2>1, <2>3, <3>1, <3>2, <3>4, <3>5 DEF Uploaded, OthersDone
    <3>7. SavedIsSent'
      BY <1>2, <2>1, <3>2 DEF SavedIsSent, Uploaded
    <3> QED BY <1>1, <1>4, <2>1, <3>1, <3>6, <3>7 DEF StageInv
  <2> QED BY <1>4, <2>2, <2>3 DEF Write
<1>5. CASE exec = "FINISH" /\ Finish
  <2>1. Uploaded(got) /\ got = req.size
    BY <1>1, <1>2, <1>5 DEF StageInv
  <2>2. files' = [files EXCEPT ![fp.file].done = TRUE] /\ fp' = NoFile
    BY <1>5, <2>1 DEF Finish, Uploaded
  <2>3. /\ DOMAIN files' = DOMAIN files
        /\ \A g \in DOMAIN files : g # fp.file => files'[g] = files[g]
        /\ files'[fp.file].done
        /\ files'[fp.file].by = req
        /\ files'[fp.file].content = Sent(req.size)
    BY <2>1, <2>2 DEF LateInv, Types, FileTypes, Entry, Uploaded
  <2>4. Clean'
    BY <2>1, <2>2, <2>3 DEF Clean, AllDone, Uploaded, OthersDone
  <2>5. files'[fp.file].content = [k \in 1 .. files'[fp.file].by.size |-> <<files'[fp.file].by.id, k>>]
    BY <2>3 DEF Sent
  <2>6. SavedIsSent'
    <3> SUFFICES ASSUME NEW f \in DOMAIN files, files'[f].done
                 PROVE  files'[f].content = [k \in 1 .. files'[f].by.size |-> <<files'[f].by.id, k>>]
      BY <2>3, Zenon DEF SavedIsSent
    <3>1. CASE f = fp.file
      BY <2>5, <3>1, Zenon
    <3>2. CASE f # fp.file
      <4>1. files'[f] = files[f]
        BY <2>3, <3>2
      <4> QED BY <1>2, <4>1, Zenon DEF SavedIsSent
    <3> QED BY <3>1, <3>2
  <2> QED BY <1>1, <1>5, <2>4, <2>6 DEF StageInv
<1>6. CASE exec = "ABORT" /\ Abort
  <2>1. OthersDone
    BY <1>1, <1>2, <1>6 DEF StageInv
  <2>2. /\ DOMAIN files' = DOMAIN files \ {io.final} /\ fp' = NoFile
        /\ \A g \in DOMAIN files : g # io.final => files'[g] = files[g]
    BY <1>6, WithoutType DEF Abort, LateInv, Types
  <2>3. Clean' /\ SavedIsSent'
    BY <1>2, <2>1, <2>2 DEF Clean, AllDone, OthersDone, SavedIsSent
  <2> QED BY <1>1, <1>6, <2>3 DEF StageInv
<1>7. CASE exec = "OPEN_READ" /\ OpenRead
  <2>1. Clean
    BY <1>1, <1>2, <1>7 DEF StageInv
  <2>2. UNCHANGED files /\ (fp' = NoFile \/ io'.result = "ok")
    BY <1>7 DEF OpenRead, LateInv, Types, MailTypes
  <2>3. AllDone' /\ SavedIsSent' /\ (io'.result # "ok" => Clean')
    BY <1>2, <2>1, <2>2 DEF Clean, AllDone, SavedIsSent
  <2> QED BY <1>1, <1>7, <2>3 DEF StageInv
<1>8. CASE exec = "READ" /\ Read
  <2>1. AllDone' /\ SavedIsSent'
    BY <1>1, <1>2, <1>8 DEF StageInv, Read, AllDone, SavedIsSent
  <2> QED BY <1>1, <1>8, <2>1 DEF StageInv
<1>9. CASE exec = "CLOSE" /\ Close
  <2>1. AllDone' /\ SavedIsSent' /\ fp' = NoFile
    BY <1>1, <1>2, <1>9 DEF StageInv, Close, AllDone, SavedIsSent
  <2> QED BY <1>1, <1>9, <2>1 DEF StageInv
<1>10. CASE exec = "LIST" /\ List
  <2>1. Clean' /\ SavedIsSent'
    BY <1>1, <1>2, <1>10 DEF StageInv, List, sdVars, Clean, AllDone, SavedIsSent
  <2> QED BY <1>1, <1>10, <2>1 DEF StageInv
<1> QED BY <1>3, <1>4, <1>5, <1>6, <1>7, <1>8, <1>9, <1>10, ExecCases DEF LateInv, Types

\* The handlers, which change no file: each finds what the command it waited for
\* has left.
LEMMA SavedStep ==
  ASSUME LateInv, MailInv, SavedInv, [Next]_vars PROVE SavedInv'
<1> SUFFICES ASSUME ~late' PROVE StageInv' /\ SavedIsSent'
  BY DEF SavedInv
<1>1. ~late /\ StageInv /\ SavedIsSent
  <2>1. late => late'
    BY DEF vars, Next, Poll, Handler, PollTake, PollExec, Start, StopBegins, StopEnds, Request,
       Post, Acked, Timeout, ReceiveLoop, Receive, SendLoop
  <2> QED BY <2>1 DEF SavedInv
<1>2. ASSUME UNCHANGED <<fp, files>> PROVE SavedIsSent' /\ (AllDone => AllDone') /\ (Clean => Clean')
  BY <1>1, <1>2 DEF SavedIsSent, AllDone, Clean
<1>3. ASSUME UNCHANGED <<fp, files, req>>, io'.final = io.final
      PROVE  /\ OthersDone => OthersDone'
             /\ \A k : Uploaded(k) => Uploaded(k)'
  BY <1>3 DEF OthersDone, Uploaded, Sent
<1>4. CASE UNCHANGED vars \/ Start \/ StopBegins \/ StopEnds \/ PollTake
  <2>1. UNCHANGED <<fp, files, req, io, stage, sub, ack, got>>
    BY <1>4 DEF vars, mailVars, sdVars, httpVars, Start, StopBegins, StopEnds, PollTake
  <2>2. StageInv'
    BY <1>1, <2>1 DEF StageInv, AllDone, Clean, OthersDone, Uploaded, Sent, Executed
  <2> QED BY <1>2, <2>1, <2>2
<1>5. CASE PollExec
  BY <1>1, <1>5, ExecSaved
<1>6. CASE Request
  <2>1. Clean /\ UNCHANGED <<fp, files>> /\ got' = 0 /\ sub' = "send"
    BY <1>1, <1>6 DEF Request, StageInv, sdVars
  <2>2. \/ stage' = "OPEN_WRITE" /\ io'.req = req'
        \/ stage' = "OPEN_READ" \/ stage' = "LIST"
    <3>1. PICK n \in Names, s \in Sizes :
            LET r == [id |-> made + 1, name |-> n, size |-> s]
            IN  \/ stage' = "OPEN_WRITE" /\ req' = r /\ io' = [io EXCEPT !.req = r]
                \/ stage' = "OPEN_READ"
                \/ stage' = "LIST"
      BY <1>6 DEF Request
    <3> DEFINE r == [id |-> made + 1, name |-> n, size |-> s]
    <3>2. \/ stage' = "OPEN_WRITE" /\ req' = r /\ io' = [io EXCEPT !.req = r]
          \/ stage' = "OPEN_READ"
          \/ stage' = "LIST"
      BY <3>1
    <3> HIDE DEF r
    <3> QED BY <3>2 DEF LateInv, Types, MailTypes
  <2>3. Clean' /\ SavedIsSent' /\ ~Executed'
    BY <1>2, <2>1 DEF Executed
  <2> QED BY <2>1, <2>2, <2>3 DEF StageInv
<1>7. CASE Post
  <2>1. UNCHANGED <<fp, files, req, io, stage, got>> /\ ~Executed /\ ~Executed'
    BY <1>1, <1>7 DEF Post, sdVars, Executed, MailInv
  <2>2. StageInv'
    BY <1>1, <2>1 DEF StageInv, AllDone, Clean, OthersDone, Uploaded, Sent
  <2> QED BY <1>2, <2>1, <2>2
<1>8. CASE Acked
  <2>1. UNCHANGED <<fp, files, req, io, got>> /\ Executed /\ ~Executed'
    BY <1>8 DEF Acked, sdVars, Executed
  <2>2. CASE stage = "OPEN_WRITE"
    <3>1. \/ io.result = "ok" /\ stage' = "recv loop"
          \/ io.result # "ok" /\ stage' = "idle"
      BY <1>8, <2>2 DEF Acked, Returned, Leave, Loop
    <3>2. got = 0 /\ 0 <= req.size
      BY <1>1, <2>2, UploadNumbers DEF StageInv, LateInv, Types, TaskTypes
    <3> QED BY <1>1, <1>2, <1>3, <2>1, <2>2, <3>1, <3>2 DEF StageInv
  <2>3. CASE stage = "WRITE"
    <3>1. \/ io.result = "ok" /\ stage' = "recv loop"
          \/ io.result # "ok" /\ stage' = "ABORT"
      BY <1>8, <2>3 DEF Acked, Returned, Command, Loop
    <3>2. got \in 1 .. req.size => got <= req.size
      OBVIOUS
    <3> QED BY <1>1, <1>2, <1>3, <2>1, <2>3, <3>1, <3>2 DEF StageInv, Uploaded
  <2>4. CASE stage \in {"FINISH", "ABORT", "CLOSE", "LIST"}
    <3>1. stage' = "idle"
      BY <1>8, <2>4 DEF Acked, Returned, Leave
    <3>2. Clean
      BY <1>1, <2>1, <2>4 DEF StageInv, Clean
    <3> QED BY <1>2, <2>1, <3>1, <3>2 DEF StageInv
  <2>5. CASE stage = "OPEN_READ"
    <3>1. \/ io.result = "ok" /\ stage' = "send loop"
          \/ io.result # "ok" /\ stage' = "idle"
      BY <1>8, <2>5 DEF Acked, Returned, Leave, Loop
    <3> QED BY <1>1, <1>2, <2>1, <2>5, <3>1 DEF StageInv
  <2>6. CASE stage = "READ"
    <3>1. stage' \in {"send loop", "CLOSE"}
      BY <1>8, <2>6 DEF Acked, Returned, Command, Loop
    <3> QED BY <1>1, <1>2, <2>1, <2>6, <3>1 DEF StageInv
  <2> QED BY <1>8, <2>2, <2>3, <2>4, <2>5, <2>6 DEF Acked, Returned
<1>9. CASE Timeout
  BY <1>9 DEF Timeout
<1>10. CASE ReceiveLoop
  <2>1. /\ UNCHANGED <<fp, files, req, io, got>> /\ stage = "recv loop"
        /\ stage' \in {"ABORT", "recv"} /\ (stage' = "ABORT" => sub' = "send")
    BY <1>10 DEF ReceiveLoop, Command, Loop, sdVars
  <2>2. Uploaded(got) /\ got <= req.size /\ OthersDone
    BY <1>1, <2>1 DEF StageInv, Uploaded
  <2> QED BY <1>2, <1>3, <2>1, <2>2 DEF StageInv, Executed
<1>11. CASE Receive
  <2>1. /\ UNCHANGED <<fp, files, req>> /\ stage = "recv" /\ sub' = "send"
        /\ \/ /\ stage' = "WRITE" /\ got < req.size /\ got' = got + 1
              /\ io' = [io EXCEPT !.data = <<req.id, got + 1>>, !.len = 1]
           \/ stage' = "FINISH" /\ got = req.size /\ UNCHANGED <<got, io>>
           \/ stage' = "ABORT" /\ UNCHANGED <<got, io>>
    BY <1>11 DEF Receive, Command, sdVars
  <2>2. Uploaded(got) /\ got <= req.size /\ OthersDone
    BY <1>1, <2>1 DEF StageInv, Uploaded
  <2>3. ~Executed'
    BY <2>1 DEF Executed
  <2>4. CASE /\ stage' = "WRITE" /\ got < req.size /\ got' = got + 1
             /\ io' = [io EXCEPT !.data = <<req.id, got + 1>>, !.len = 1]
    <3>1. io'.final = io.final /\ io'.data = <<req.id, got'>>
      BY <2>4 DEF LateInv, Types, MailTypes
    <3>2. got' \in 1 .. req.size /\ got' - 1 = got
      <4>1. got \in Nat /\ req.size \in Nat
        BY UploadNumbers DEF LateInv, Types, TaskTypes
      <4> QED BY <2>4, <4>1
    <3>3. Uploaded(got - 1)'
      BY <1>3, <2>1, <2>2, <3>1, <3>2
    <3> QED BY <1>2, <2>1, <2>3, <2>4, <3>1, <3>2, <3>3 DEF StageInv
  <2>5. CASE stage' \in {"FINISH", "ABORT"} /\ UNCHANGED <<got, io>>
    BY <1>2, <1>3, <2>1, <2>2, <2>3, <2>5 DEF StageInv
  <2> QED BY <2>1, <2>4, <2>5
<1>12. CASE SendLoop
  <2>1. /\ UNCHANGED <<fp, files>> /\ stage = "send loop" /\ sub' = "send"
        /\ stage' \in {"CLOSE", "READ"}
    BY <1>12 DEF SendLoop, Command, sdVars
  <2> QED BY <1>1, <1>2, <2>1 DEF StageInv, Executed
<1> QED BY <1>4, <1>5, <1>6, <1>7, <1>8, <1>9, <1>10, <1>11, <1>12 DEF Next, Poll, Handler

LEMMA InitSaved == Init => SavedInv
<1> SUFFICES ASSUME Init PROVE SavedInv
  OBVIOUS
<1>1. DOMAIN files = {} /\ fp = NoFile /\ stage = "idle"
  BY DEF Init
<1> QED BY <1>1 DEF SavedInv, StageInv, Clean, AllDone, SavedIsSent

(* Until a command times out, the card holds of each upload the whole of it, *)
(* as it was sent, or nothing, however the upload ended: finished, aborted   *)
(* by the client, stopped by the button or failed on the card (the handlers  *)
(* and the do_*() functions of upload_server.c).                             *)
THEOREM AllOrNothing == Spec => []SavedWhole
<1>1. LateInv /\ MailInv /\ SavedInv /\ [Next]_vars => LateInv' /\ MailInv' /\ SavedInv'
  BY LateStep, MailStep, SavedStep DEF LateInv
<1>2. SavedInv => SavedWhole
  BY DEF SavedInv, SavedWhole, SavedIsSent, NothingPartial, StageInv, Clean, AllDone
<1> QED BY <1>1, <1>2, InitLate, InitMail, InitSaved, PTL DEF Spec
=============================================================================
