-------------------------- MODULE WebServerProofs --------------------------
(***************************************************************************)
(* Theorems about WebServer, for every set of browsers, pages and parts,   *)
(* any length of blocks and as many edits as one likes, with the proofs    *)
(* TLAPS checks.                                                           *)
(***************************************************************************)
EXTENDS WebServer, TLAPS

(***************************************************************************)
(* A request: what the main thread holds between two system calls.         *)
(***************************************************************************)
Things == Files \cup Callbacks

Requests ==
    [browser : Browsers, step : Steps, reads : Things, from : {"disk", "memory"},
     holds : 0 .. MaxEdits, code : {200, 404}, parts : SUBSET Parts]

\* What it reads from, past the search in memory, is a file.
JobInv ==
    /\ job # IdleJob => job \in Requests /\ job.browser \in sockets
    /\ job.step \in {"opened", "stat", "reload", "null"} => job.reads \in Files

\* A page or part that is compared with its file is in memory.
ComparedInv ==
    job.step \in {"stat", "reload", "null"} => cache[job.reads] # NotCached

FileInv ==
    /\ file \in [Files -> [version : 0 .. MaxEdits, mtime : Times]]
    /\ now \in Times /\ edits \in 0 .. MaxEdits
    /\ cache \in [Files -> [content : 0 .. MaxEdits, last_modified : Times] \cup {NotCached}]
    /\ excused \subseteq Files

(***************************************************************************)
(* A connection: the request is processed once, so that nothing is written *)
(* before and five strings after it, and only a connection that is being   *)
(* served has anything in its buffers.                                     *)
(***************************************************************************)
ConnectionTypes ==
    /\ connection \in [Browsers -> {"none", "connecting", "open", "closed"}]
    /\ inbox \in [Browsers -> Nat] /\ read_buffer \in [Browsers -> Nat]
    /\ write_buffer_len \in [Browsers -> Nat] /\ received \in [Browsers -> Nat]
    /\ close_pending \subseteq sockets /\ deleting \subseteq sockets
    /\ unanswered \subseteq close_pending /\ sockets \subseteq Browsers

Fresh(b) == write_buffer_len[b] = 0 /\ received[b] = 0 /\ b \notin close_pending

ConnectionInv(b) ==
    /\ read_buffer[b] + inbox[b] <= 2
    /\ write_buffer_len[b] + received[b] <= ResponseLen
    /\ read_buffer[b] < 2 => Fresh(b)
    /\ job # IdleJob /\ job.browser = b => read_buffer[b] = 2 /\ Fresh(b)
    /\ connection[b] \in {"none", "connecting"} => b \notin sockets
    /\ b \in unanswered => write_buffer_len[b] = 0
    /\ b \in close_pending \ unanswered /\ connection[b] = "open"
          => write_buffer_len[b] + received[b] = ResponseLen
    /\ b \in deleting /\ connection[b] = "open" => received[b] = ResponseLen

ServerInv ==
    JobInv /\ ComparedInv /\ FileInv /\ ConnectionTypes /\ \A b \in Browsers : ConnectionInv(b)
-----------------------------------------------------------------------------
LEMMA ServerInvInit == Init => ServerInv
  BY WebAssumption DEF Init, ServerInv, JobInv, ComparedInv, FileInv, ConnectionTypes, ConnectionInv,
     Fresh, IdleJob, NotCached, Times, ResponseLen

LEMMA TypeFromServerInv == ServerInv => TypeOK
<1> SUFFICES ASSUME ServerInv PROVE TypeOK
  OBVIOUS
<1>1. \A b \in Browsers :
        /\ inbox[b] \in 0 .. 2 /\ read_buffer[b] \in 0 .. 2
        /\ write_buffer_len[b] + received[b] \in 0 .. ResponseLen
  <2> TAKE b \in Browsers
  <2>1. /\ inbox[b] \in Nat /\ read_buffer[b] \in Nat
        /\ write_buffer_len[b] \in Nat /\ received[b] \in Nat
    BY DEF ServerInv, ConnectionTypes
  <2>2. /\ read_buffer[b] + inbox[b] <= 2
        /\ write_buffer_len[b] + received[b] <= ResponseLen
    BY DEF ServerInv, ConnectionInv
  <2> QED BY <2>1, <2>2 DEF ResponseLen
<1>2. ~Idle => job.browser \in sockets /\ job.step \in Steps
  BY DEF ServerInv, JobInv, Requests, Idle
<1> QED
  BY <1>1, <1>2 DEF ServerInv, FileInv, ConnectionTypes, TypeOK

\* What the stat, the open and the read of a file may find, and the next part.
LEMMA Values ==
    ASSUME ServerInv, NEW f \in Files
    PROVE  /\ file[f].version \in 0 .. MaxEdits /\ file[f].mtime \in Times
           /\ Stat(f) \subseteq Times
           /\ Unset(f) \subseteq Files
  BY DEF ServerInv, FileInv, Stat, Unset

\* One field of a request is changed.
LEMMA FieldsOf ==
    ASSUME NEW j \in Requests
    PROVE  /\ j.browser \in Browsers /\ j.step \in Steps /\ j.reads \in Things
           /\ j.code \in {200, 404} /\ j.parts \subseteq Parts
  BY DEF Requests

LEMMA StepChanged ==
    ASSUME NEW j \in Requests, NEW s \in Steps, NEW k, k = [j EXCEPT !.step = s]
    PROVE  k \in Requests /\ k.browser = j.browser /\ k.reads = j.reads /\ k.step = s
  BY DEF Requests

LEMMA HoldsChanged ==
    ASSUME NEW j \in Requests, NEW h \in 0 .. MaxEdits, NEW k, k = [j EXCEPT !.holds = h]
    PROVE  k \in Requests /\ k.browser = j.browser /\ k.reads = j.reads /\ k.step = j.step
           /\ k.holds = h
  BY DEF Requests

LEMMA CodeChanged ==
    ASSUME NEW j \in Requests, NEW c \in {200, 404}, NEW k, k = [j EXCEPT !.code = c]
    PROVE  k \in Requests /\ k.browser = j.browser /\ k.step = j.step
  BY DEF Requests

LEMMA ReadsChanged ==
    ASSUME NEW j \in Requests, NEW r \in Things, NEW k, k = [j EXCEPT !.reads = r]
    PROVE  k \in Requests /\ k.browser = j.browser /\ k.step = j.step
  BY DEF Requests

LEMMA PartsChanged ==
    ASSUME NEW j \in Requests, NEW ps \in SUBSET Parts, NEW k, k = [j EXCEPT !.parts = ps]
    PROVE  k \in Requests /\ k.browser = j.browser /\ k.step = j.step
  BY DEF Requests

LEMMA FromChanged ==
    ASSUME NEW j \in Requests, NEW f \in {"disk", "memory"}, NEW k,
           k = [j EXCEPT !.from = f]
    PROVE  k \in Requests /\ k.browser = j.browser /\ k.reads = j.reads /\ k.step = j.step
  BY DEF Requests

LEMMA NextPartGoesOn ==
    ASSUME job \in Requests, NEW code \in {200, 404}, NextPart(code)
    PROVE  /\ job' \in Requests /\ job'.browser = job.browser
           /\ job'.step \in {"find", "respond"}
<1>1. ASSUME NEW s \in {"find", "respond"}
      PROVE  LET k == [job EXCEPT !.step = s, !.holds = 0, !.code = code]
             IN  k \in Requests /\ k.browser = job.browser /\ k.step = s
  <2> DEFINE i == [job EXCEPT !.step = s]
             j == [i EXCEPT !.holds = 0]
             k == [j EXCEPT !.code = code]
  <2>1. i \in Requests /\ i.browser = job.browser /\ i.step = s
    BY StepChanged DEF Steps
  <2>2. j \in Requests /\ j.browser = i.browser /\ j.step = i.step
    <3> HIDE DEF i
    <3> 0 \in 0 .. MaxEdits
      BY WebAssumption
    <3> QED BY <2>1, HoldsChanged
  <2>3. k \in Requests /\ k.browser = j.browser /\ k.step = j.step
    <3> HIDE DEF i, j
    <3> QED BY <2>2, CodeChanged
  <2> QED BY <2>1, <2>2, <2>3
<1>2. CASE job.parts = {}
  BY <1>1, <1>2 DEF NextPart
<1>3. CASE job.parts # {}
  <2> DEFINE k == [job EXCEPT !.step = "find", !.holds = 0, !.code = code]
             others(p) == job.parts \ {p}
  <2>1. PICK p \in job.parts :
          job' = [job EXCEPT !.step = "find", !.holds = 0, !.code = code, !.reads = p,
                             !.parts = @ \ {p}]
    BY <1>3 DEF NextPart
  <2>2. p \in Things /\ others(p) \in SUBSET Parts
    BY FieldsOf DEF Things, Files
  <2>3. k \in Requests /\ k.browser = job.browser /\ k.step = "find"
    BY <1>1
  <2> DEFINE l == [k EXCEPT !.reads = p]
  <2>4. job' = [l EXCEPT !.parts = others(p)]
    BY <2>1
  <2> HIDE DEF k, others
  <2>5. l \in Requests /\ l.browser = k.browser /\ l.step = k.step
    BY <2>2, <2>3, ReadsChanged
  <2> HIDE DEF l
  <2>6. job' \in Requests /\ job'.browser = l.browser /\ job'.step = l.step
    BY <2>2, <2>4, <2>5, PartsChanged
  <2> QED BY <2>3, <2>5, <2>6
<1> QED BY <1>2, <1>3

\* The steps of a request between its beginning and its end.
Within ==
    \/ FindCallback \/ FindCached \/ Fopen \/ FopenFails
    \/ Construct \/ StatChanged \/ StatSame \/ Reload \/ ReloadFails

GoesOn ==
    /\ job # IdleJob /\ job' # IdleJob /\ job'.browser = job.browser
    /\ UNCHANGED <<browserVars, socketVars, unanswered>>

LEMMA Busy ==
    ASSUME JobInv, job.step # "idle"
    PROVE  job \in Requests /\ job # IdleJob /\ job.code \in {200, 404}
  BY DEF JobInv, IdleJob, Requests

LEMMA RequestsAreBusy ==
    ASSUME NEW j \in Requests PROVE j # IdleJob
  BY DEF Requests, IdleJob, Steps

LEMMA RequestGoesOn ==
    ASSUME ServerInv, Within PROVE GoesOn /\ JobInv'
<1>0. JobInv
  BY DEF ServerInv
<1>1. job.step # "idle"
  BY DEF Within, FindCallback, FindCached, Fopen, FopenFails, Construct, StatChanged,
         StatSame, Reload, ReloadFails, AtStep
<1>2. job \in Requests /\ job # IdleJob /\ job.code \in {200, 404}
  BY <1>0, <1>1, Busy
<1>3. UNCHANGED <<browserVars, socketVars, unanswered>>
  BY DEF Within, FindCallback, FindCached, Fopen, FopenFails, Construct, StatChanged,
         StatSame, Reload, ReloadFails
<1>4. SUFFICES /\ job' \in Requests /\ job'.browser = job.browser
               /\ job'.step \in {"opened", "stat", "reload", "null"} => job'.reads \in Files
  BY <1>0, <1>2, <1>3, RequestsAreBusy DEF JobInv, GoesOn, socketVars
<1>5. ASSUME NEW c \in {200, 404}, NextPart(c)
      PROVE  /\ job' \in Requests /\ job'.browser = job.browser
             /\ job'.step \in {"opened", "stat", "reload", "null"} => job'.reads \in Files
  BY <1>2, <1>5, NextPartGoesOn
<1>6. CASE FindCallback
  BY <1>5, <1>6 DEF FindCallback
<1>7. CASE FindCached
  <2> DEFINE j == [job EXCEPT !.step = "stat"]
  <2>1. j \in Requests /\ j.browser = job.browser /\ j.reads = job.reads
    BY <1>2, StepChanged DEF Steps
  <2>2. job' = [j EXCEPT !.from = IF job.reads \in Pages THEN "memory" ELSE job.from]
        /\ job.from \in {"disk", "memory"} /\ job.reads \in Files
    BY <1>2, <1>7 DEF FindCached, Requests
  <2> HIDE DEF j
  <2> QED BY <2>1, <2>2, FromChanged
<1>8. CASE Fopen
  <2> DEFINE j == [job EXCEPT !.step = "opened"]
  <2>1. j \in Requests /\ j.browser = job.browser /\ j.reads = job.reads
    BY <1>2, StepChanged DEF Steps
  <2>2. job' = [j EXCEPT !.holds = file[job.reads].version] /\ job.reads \in Files
    BY <1>8 DEF Fopen
  <2>3. file[job.reads].version \in 0 .. MaxEdits
    BY <2>2, Values
  <2> HIDE DEF j
  <2> QED BY <2>1, <2>2, <2>3, HoldsChanged
<1>9. CASE FopenFails
  BY <1>2, <1>5, <1>9 DEF FopenFails
<1>10. CASE Construct
  <2>1. CASE job.reads \in Pages
    <3> DEFINE j == [job EXCEPT !.step = "stat"]
    <3>1. j \in Requests /\ j.browser = job.browser /\ j.reads = job.reads
      BY <1>2, StepChanged DEF Steps
    <3>2. job' = [j EXCEPT !.holds = 0] /\ 0 \in 0 .. MaxEdits
      BY <1>10, <2>1, WebAssumption DEF Construct
    <3> HIDE DEF j
    <3> QED BY <2>1, <3>1, <3>2, HoldsChanged DEF Files
  <2> QED BY <1>2, <1>5, <1>10, <2>1 DEF Construct
<1>11. CASE StatChanged
  BY <1>0, <1>2, <1>11, StepChanged DEF StatChanged, ToStep, Steps, JobInv, AtStep
<1>12. CASE StatSame
  <2>1. CASE ToStep("null")
    BY <1>0, <1>2, <1>12, <2>1, StepChanged DEF StatSame, ToStep, Steps, JobInv, AtStep
  <2> QED BY <1>2, <1>5, <1>12, <2>1 DEF StatSame
<1>13. CASE Reload
  BY <1>2, <1>5, <1>13 DEF Reload
<1>14. CASE ReloadFails
  BY <1>2, <1>5, <1>14 DEF ReloadFails
<1> QED
  BY <1>6, <1>7, <1>8, <1>9, <1>10, <1>11, <1>12, <1>13, <1>14 DEF Within
-----------------------------------------------------------------------------
(* What each kind of step preserves.                                       *)

LEMMA FileInvNext == ServerInv /\ [Next]_vars => FileInv'
<1> SUFFICES ASSUME ServerInv, [Next]_vars PROVE FileInv'
  OBVIOUS
<1>0. FileInv /\ JobInv /\ MaxEdits \in Nat \ {0} /\ MaxTime \in Nat
  BY WebAssumption DEF ServerInv
<1>1. CASE UNCHANGED <<fileVars, cache, excused>>
  BY <1>0, <1>1 DEF FileInv, fileVars
<1>2. CASE edit
  <2>1. CASE Tick
    BY <1>0, <2>1 DEF Tick, FileInv, Times
  <2>2. ASSUME NEW f \in Files, Replace(f) PROVE FileInv'
    BY <1>0, <2>2 DEF Replace, FileInv, Times
  <2>3. ASSUME NEW f \in Files, Remove(f) PROVE FileInv'
    BY <1>0, <2>3 DEF Remove, FileInv, Times
  <2> QED BY <1>2, <2>1, <2>2, <2>3 DEF edit
<1>3. CASE Construct
  <2>1. job.reads \in Files /\ job.holds \in 0 .. MaxEdits
    BY <1>0, <1>3, Busy DEF Construct, AtStep, JobInv, Requests
  <2>2. PICK t \in Stat(job.reads) :
          cache' = [cache EXCEPT ![job.reads] = [content |-> job.holds, last_modified |-> t]]
    BY <1>3 DEF Construct
  <2> QED BY <1>0, <1>3, <2>1, <2>2, Values DEF Construct, FileInv, fileVars
<1>4. CASE StatChanged
  <2>1. job.reads \in Files
    BY <1>0, <1>4 DEF StatChanged, AtStep, JobInv
  <2>2. PICK t \in Stat(job.reads) :
          cache' = [cache EXCEPT ![job.reads] = [content |-> NoContent, last_modified |-> t]]
    BY <1>4 DEF StatChanged
  <2> QED BY <1>0, <1>4, <2>1, <2>2, Values DEF StatChanged, FileInv, fileVars, NoContent
<1>5. CASE StatSame
  <2>1. job.reads \in Files
    BY <1>0, <1>5 DEF StatSame, AtStep, JobInv
  <2> QED BY <1>0, <1>5, <2>1, Values DEF StatSame, FileInv, fileVars
<1>6. CASE Reload
  <2>1. job.reads \in Files
    BY <1>0, <1>6 DEF Reload, AtStep, JobInv
  <2>2. file[job.reads].version \in 0 .. MaxEdits
    BY <2>1, Values
  <2>3. cache[job.reads] \in [content : 0 .. MaxEdits, last_modified : Times] \cup {NotCached}
    BY <1>0, <2>1 DEF FileInv
  <2>4. cache[job.reads] # NotCached
    BY <1>6 DEF ServerInv, ComparedInv, Reload, AtStep
  <2>5. cache' = [cache EXCEPT ![job.reads] = Reloaded(job.reads)]
    BY <1>6 DEF Reload
  <2>6. Reloaded(job.reads) \in [content : 0 .. MaxEdits, last_modified : Times]
    BY <2>2, <2>3, <2>4 DEF Reloaded
  <2> QED BY <1>0, <1>6, <2>1, <2>5, <2>6 DEF Reload, FileInv, fileVars
<1>7. CASE NullPage
  BY <1>0, <1>7 DEF NullPage, FileInv, fileVars
<1>8. CASE browser
  BY <1>1, <1>8 DEF browser, Connect, SendRequest, Close
<1>9. ASSUME NEW b \in Browsers,
             on_web_connection(b) \/ on_readable(b) \/ ReadEnd(b) \/ on_writable(b) \/ Sweep(b)
      PROVE  FileInv'
  BY <1>1, <1>9 DEF on_web_connection, on_readable, ReadEnd, on_writable, Sweep
<1>10. CASE FindCallback \/ FindCached \/ Fopen \/ FopenFails \/ ReloadFails
            \/ NoResponse \/ end_response
  BY <1>1, <1>10 DEF FindCallback, FindCached, Fopen, FopenFails, ReloadFails,
                     NoResponse, end_response
<1>11. CASE UNCHANGED vars
  BY <1>1, <1>11 DEF vars
<1> QED
  BY <1>2, <1>3, <1>4, <1>5, <1>6, <1>7, <1>8, <1>9, <1>10, <1>11
     DEF Next, server, process

LEMMA ComparedInvNext == ServerInv /\ [Next]_vars => ComparedInv'
<1> SUFFICES ASSUME ServerInv, [Next]_vars PROVE ComparedInv'
  OBVIOUS
<1>0. FileInv /\ JobInv /\ ComparedInv /\ MaxEdits \in Nat \ {0} /\ MaxTime \in Nat
  BY WebAssumption DEF ServerInv
<1>1. CASE UNCHANGED <<cache, job>>
  BY <1>0, <1>1 DEF ComparedInv
<1>2. CASE job'.step \in {"idle", "find", "opened", "respond"}
  BY <1>2 DEF ComparedInv
<1>3. ASSUME NEW code \in {200, 404}, NextPart(code), job \in Requests PROVE ComparedInv'
  BY <1>2, <1>3, NextPartGoesOn
<1>4. CASE Within
  <2>1. job \in Requests /\ job.code \in {200, 404}
    <3>1. job.step # "idle"
      BY <1>4 DEF Within, FindCallback, FindCached, Fopen, FopenFails, Construct,
                  StatChanged, StatSame, Reload, ReloadFails, AtStep
    <3> QED BY <1>0, <3>1, Busy
  <2>2. CASE FindCached
    BY <2>1, <2>2 DEF FindCached, ComparedInv, Requests
  <2>3. CASE Fopen
    <3>1. job'.step = "opened"
      BY <2>1, <2>3 DEF Fopen, Requests
    <3> QED BY <1>2, <3>1
  <2>4. CASE Construct
    <3>1. CASE job.reads \in Pages
      <4>1. job.reads \in Files
        BY <3>1 DEF Files
      <4>2. PICK t \in Stat(job.reads) :
              cache' = [cache EXCEPT ![job.reads] = [content |-> job.holds, last_modified |-> t]]
        BY <2>4 DEF Construct
      <4>3. t \in Nat
        BY <4>1, <1>0, Values DEF Times
      <4>4. job'.reads = job.reads
        <5> DEFINE j == [job EXCEPT !.step = "stat"]
        <5>1. j \in Requests /\ j.reads = job.reads
          BY <2>1, StepChanged DEF Steps
        <5>2. job' = [j EXCEPT !.holds = 0] /\ 0 \in 0 .. MaxEdits
          BY <1>0, <2>4, <3>1 DEF Construct
        <5> HIDE DEF j
        <5> QED BY <5>1, <5>2, HoldsChanged
      <4>5. cache'[job.reads] = [content |-> job.holds, last_modified |-> t]
        BY <1>0, <4>1, <4>2 DEF FileInv
      <4> QED BY <4>3, <4>4, <4>5 DEF ComparedInv, NotCached
    <3> QED BY <1>3, <2>1, <2>4, <3>1 DEF Construct
  <2>5. CASE StatChanged
    <3>1. job.reads \in Files
      BY <1>0, <2>5 DEF StatChanged, AtStep, JobInv
    <3>2. PICK t \in Stat(job.reads) :
            cache' = [cache EXCEPT ![job.reads] = [content |-> NoContent, last_modified |-> t]]
      BY <2>5 DEF StatChanged
    <3>3. job'.reads = job.reads
      BY <2>1, <2>5 DEF StatChanged, ToStep, Requests
    <3>4. cache'[job.reads] = [content |-> NoContent, last_modified |-> t]
      BY <1>0, <3>1, <3>2 DEF FileInv
    <3> QED BY <3>3, <3>4 DEF ComparedInv, NotCached, NoContent
  <2>6. CASE StatSame
    <3>1. CASE ToStep("null")
      <4>1. job'.reads = job.reads
        BY <2>1, <3>1 DEF ToStep, Requests
      <4> QED BY <1>0, <2>6, <4>1 DEF StatSame, ComparedInv, AtStep
    <3> QED BY <1>3, <2>1, <2>6, <3>1 DEF StatSame
  <2>7. CASE FindCallback \/ FopenFails \/ Reload \/ ReloadFails
    BY <1>3, <2>1, <2>7 DEF FindCallback, FopenFails, Reload, ReloadFails
  <2> QED BY <1>4, <2>2, <2>3, <2>4, <2>5, <2>6, <2>7 DEF Within
<1>5. CASE NoResponse \/ NullPage \/ end_response
  BY <1>2, <1>5 DEF NoResponse, NullPage, end_response, IdleJob
<1>6. CASE edit \/ browser \/ UNCHANGED vars
  BY <1>1, <1>6 DEF edit, Tick, Replace, Remove, browser, Connect, SendRequest, Close, vars
<1>7. ASSUME NEW b \in Browsers,
             on_web_connection(b) \/ on_readable(b) \/ ReadEnd(b) \/ on_writable(b) \/ Sweep(b)
      PROVE  ComparedInv'
  <2>1. CASE on_readable(b)
    BY <1>1, <1>2, <2>1 DEF on_readable
  <2> QED BY <1>1, <1>7, <2>1 DEF on_web_connection, ReadEnd, on_writable, Sweep
<1> QED
  BY <1>4, <1>5, <1>6, <1>7 DEF Next, server, process, Within

\* A step that leaves the connections alone and at most ends no request.
LEMMA ConnectionsUntouched ==
    ASSUME ServerInv, UNCHANGED <<browserVars, socketVars, unanswered>>,
           job' = job \/ GoesOn
    PROVE  ConnectionTypes' /\ \A b \in Browsers : ConnectionInv(b)'
<1>1. ConnectionTypes'
  BY DEF ServerInv, ConnectionTypes, browserVars, socketVars
<1>2. ASSUME NEW b \in Browsers PROVE ConnectionInv(b)'
  <2>1. ConnectionInv(b)
    BY DEF ServerInv
  <2>2. job' # IdleJob /\ job'.browser = b => job # IdleJob /\ job.browser = b
    BY DEF GoesOn
  <2> QED BY <2>1, <2>2 DEF ConnectionInv, Fresh, browserVars, socketVars
<1> QED BY <1>1, <1>2

\* A step that concerns one connection only.
Elsewhere(b) ==
    \A c \in Browsers \ {b} :
        /\ connection'[c] = connection[c] /\ inbox'[c] = inbox[c]
        /\ read_buffer'[c] = read_buffer[c] /\ received'[c] = received[c]
        /\ write_buffer_len'[c] = write_buffer_len[c]
        /\ c \in sockets' <=> c \in sockets
        /\ c \in close_pending' <=> c \in close_pending
        /\ c \in deleting' <=> c \in deleting
        /\ c \in unanswered' <=> c \in unanswered
        /\ job' # IdleJob /\ job'.browser = c => job # IdleJob /\ job.browser = c

LEMMA OthersUntouched ==
    ASSUME ServerInv, NEW b \in Browsers, Elsewhere(b), ConnectionInv(b)'
    PROVE  \A c \in Browsers : ConnectionInv(c)'
<1> TAKE c \in Browsers
<1>1. ConnectionInv(c)
  BY DEF ServerInv
<1>2. CASE c = b
  BY <1>2
<1>3. CASE c # b
  BY <1>1, <1>3 DEF Elsewhere, ConnectionInv, Fresh
<1> QED BY <1>2, <1>3

LEMMA JobInvNext == ServerInv /\ [Next]_vars => JobInv'
<1> SUFFICES ASSUME ServerInv, [Next]_vars PROVE JobInv'
  OBVIOUS
<1>0. JobInv
  BY DEF ServerInv
<1>1. CASE job' = IdleJob
  BY <1>1 DEF JobInv, IdleJob
<1>2. CASE Within
  BY <1>2, RequestGoesOn
<1>3. CASE edit \/ browser \/ UNCHANGED vars
  <2>1. UNCHANGED <<job, sockets>>
    BY <1>3 DEF edit, Tick, Replace, Remove, browser, Connect, SendRequest, Close,
                socketVars, vars
  <2> QED BY <1>0, <2>1 DEF JobInv
<1>4. CASE NoResponse \/ NullPage \/ end_response
  BY <1>1, <1>4 DEF NoResponse, NullPage, end_response
<1>5. ASSUME NEW b \in Browsers,
             on_web_connection(b) \/ ReadEnd(b) \/ on_writable(b) \/ Sweep(b)
      PROVE  JobInv'
  <2>1. job' = job /\ job = IdleJob
    BY <1>5 DEF on_web_connection, ReadEnd, on_writable, Sweep, Idle
  <2> QED BY <1>1, <2>1
<1>6. ASSUME NEW b \in Browsers, on_readable(b) PROVE JobInv'
  <2>1. CASE job' = job
    BY <1>1, <1>6, <2>1 DEF on_readable, Idle
  <2>2. CASE job' # job
    <3>1. PICK p \in Pages \cup Callbacks :
            job' = [browser |-> b, step |-> "find", reads |-> p, from |-> "disk",
                    holds |-> 0, code |-> 200, parts |-> Parts]
      BY <1>6, <2>2 DEF on_readable
    <3>2. job' \in Requests /\ job'.browser = b /\ job'.step = "find"
      BY <3>1, WebAssumption DEF Requests, Steps, Things, Files
    <3>3. b \in sockets'
      BY <1>6 DEF on_readable
    <3> QED BY <3>2, <3>3 DEF JobInv
  <2> QED BY <2>1, <2>2
<1> QED
  BY <1>2, <1>3, <1>4, <1>5, <1>6 DEF Next, server, process, Within

\* What a block that is sent takes from the buffer.
LEMMA SendingBounds ==
    ASSUME NEW n \in Nat \ {0} PROVE Sending(n) \in 1 .. n
  BY WebAssumption DEF Sending

LEMMA BrowserKeepsConnections ==
    ASSUME ServerInv, browser
    PROVE  ConnectionTypes' /\ \A b \in Browsers : ConnectionInv(b)'
<1>1. PICK b \in Browsers : Connect(b) \/ SendRequest(b) \/ Close(b)
  BY DEF browser
<1>2. ConnectionTypes /\ ConnectionInv(b) /\ UNCHANGED <<socketVars, received, job, unanswered>>
  BY <1>1 DEF ServerInv, Connect, SendRequest, Close
<1>3. CASE Connect(b)
  <2>1. ConnectionTypes'
    BY <1>2, <1>3 DEF Connect, ConnectionTypes, socketVars
  <2>2. ConnectionInv(b)'
    BY <1>2, <1>3 DEF Connect, ConnectionTypes, ConnectionInv, Fresh, socketVars
  <2>3. Elsewhere(b)
    BY <1>2, <1>3 DEF Connect, ConnectionTypes, Elsewhere, socketVars
  <2> QED BY <2>1, <2>2, <2>3, OthersUntouched
<1>4. CASE SendRequest(b)
  <2>1. PICK n \in 1 .. 2 - inbox[b] - read_buffer[b] : inbox' = [inbox EXCEPT ![b] = @ + n]
    BY <1>4 DEF SendRequest
  <2>2. inbox[b] \in Nat /\ read_buffer[b] \in Nat
    BY <1>2 DEF ConnectionTypes
  <2>3. ConnectionTypes'
    BY <1>2, <1>4, <2>1, <2>2 DEF SendRequest, ConnectionTypes, socketVars
  <2>4. inbox'[b] = inbox[b] + n
    BY <1>2, <2>1 DEF ConnectionTypes
  <2>5. ConnectionInv(b)'
    BY <1>2, <1>4, <2>2, <2>4 DEF SendRequest, ConnectionInv, Fresh, socketVars
  <2>6. Elsewhere(b)
    BY <1>2, <1>4, <2>1 DEF SendRequest, ConnectionTypes, Elsewhere, socketVars
  <2> QED BY <2>3, <2>5, <2>6, OthersUntouched
<1>5. CASE Close(b)
  <2>1. ConnectionTypes'
    BY <1>2, <1>5 DEF Close, ConnectionTypes, socketVars
  <2>2. ConnectionInv(b)'
    BY <1>2, <1>5 DEF Close, ConnectionTypes, ConnectionInv, Fresh, socketVars
  <2>3. Elsewhere(b)
    BY <1>2, <1>5 DEF Close, ConnectionTypes, Elsewhere, socketVars
  <2> QED BY <2>1, <2>2, <2>3, OthersUntouched
<1> QED BY <1>1, <1>3, <1>4, <1>5

LEMMA ServiceKeepsConnections ==
    ASSUME ServerInv, NEW b \in Browsers,
           on_web_connection(b) \/ on_readable(b) \/ ReadEnd(b) \/ on_writable(b) \/ Sweep(b)
    PROVE  ConnectionTypes' /\ \A c \in Browsers : ConnectionInv(c)'
<1>1. ConnectionTypes /\ ConnectionInv(b) /\ job = IdleJob
  BY DEF ServerInv, on_web_connection, on_readable, ReadEnd, on_writable, Sweep, Idle
<1>2. CASE on_web_connection(b)
  <2>1. ConnectionTypes'
    BY <1>1, <1>2 DEF on_web_connection, ConnectionTypes
  <2>2. ConnectionInv(b)'
    BY <1>1, <1>2 DEF on_web_connection, ConnectionTypes, ConnectionInv, Fresh
  <2>3. Elsewhere(b)
    BY <1>1, <1>2 DEF on_web_connection, ConnectionTypes, Elsewhere
  <2> QED BY <2>1, <2>2, <2>3, OthersUntouched
<1>3. CASE on_readable(b)
  <2>1. ConnectionTypes'
    BY <1>1, <1>3 DEF on_readable, ConnectionTypes
  <2>2. read_buffer'[b] = read_buffer[b] + inbox[b] /\ inbox'[b] = 0
        /\ read_buffer[b] \in Nat /\ inbox[b] \in Nat /\ inbox[b] > 0
        /\ UNCHANGED <<connection, received, write_buffer_len, close_pending, sockets, deleting,
                       unanswered>>
    BY <1>1, <1>3 DEF on_readable, ConnectionTypes
  <2>3. read_buffer'[b] # 2 => job' = IdleJob
    BY <1>1, <1>3 DEF on_readable
  <2>4. ConnectionInv(b)'
    BY <1>1, <2>2, <2>3 DEF ConnectionInv, Fresh
  <2>5. \A c \in Browsers \ {b} : inbox'[c] = inbox[c] /\ read_buffer'[c] = read_buffer[c]
    BY <1>1, <1>3 DEF on_readable, ConnectionTypes
  <2>6. job' = IdleJob \/ job'.browser = b
    BY <1>1, <1>3 DEF on_readable
  <2>7. Elsewhere(b)
    BY <2>2, <2>5, <2>6 DEF Elsewhere
  <2> QED BY <2>1, <2>4, <2>7, OthersUntouched
<1>4. CASE ReadEnd(b)
  <2>1. ConnectionTypes'
    BY <1>1, <1>4 DEF ReadEnd, ConnectionTypes, browserVars
  <2>2. ConnectionInv(b)'
    BY <1>1, <1>4 DEF ReadEnd, ConnectionInv, Fresh, browserVars
  <2>3. Elsewhere(b)
    BY <1>1, <1>4 DEF ReadEnd, Elsewhere, browserVars
  <2> QED BY <2>1, <2>2, <2>3, OthersUntouched
<1>5. CASE on_writable(b)
  <2> DEFINE n == Sending(write_buffer_len[b])
  <2>1. write_buffer_len[b] \in Nat \ {0} /\ received[b] \in Nat
    BY <1>1, <1>5 DEF on_writable, ConnectionTypes
  <2>2. n \in 1 .. write_buffer_len[b]
    BY <2>1, SendingBounds
  <2>3. /\ write_buffer_len' = [write_buffer_len EXCEPT ![b] = @ - n]
        /\ received' = [received EXCEPT ![b] = IF connection[b] = "open" THEN @ + n ELSE @]
    BY <1>5 DEF on_writable
  <2>4. \/ deleting' = deleting
        \/ /\ deleting' = deleting \cup {b}
           /\ b \in close_pending /\ write_buffer_len'[b] = 0
    <3>1. deleting' = IF AllWritten(b, write_buffer_len'[b]) THEN deleting \cup {b} ELSE deleting
      BY <1>5 DEF on_writable
    <3> QED BY <3>1 DEF AllWritten
  <2>5. b \in sockets /\ UNCHANGED <<connection, inbox, read_buffer, close_pending, sockets,
                                     job, unanswered>>
    BY <1>5 DEF on_writable
  <2> HIDE DEF n
  <2>6. /\ write_buffer_len'[b] = write_buffer_len[b] - n
        /\ received'[b] = IF connection[b] = "open" THEN received[b] + n ELSE received[b]
    BY <1>1, <2>3 DEF ConnectionTypes
  <2>7. ConnectionTypes'
    <3>1. write_buffer_len' \in [Browsers -> Nat] /\ received' \in [Browsers -> Nat]
      <4>1. write_buffer_len[b] - n \in Nat /\ received[b] + n \in Nat
        BY <2>1, <2>2
      <4> QED BY <1>1, <2>3, <4>1 DEF ConnectionTypes
    <3>2. deleting' \subseteq sockets
      BY <1>1, <2>4, <2>5 DEF ConnectionTypes
    <3> QED BY <1>1, <2>5, <3>1, <3>2 DEF ConnectionTypes
  <2>8. ConnectionInv(b)'
    <3>1. b \notin unanswered /\ read_buffer[b] = 2
          /\ write_buffer_len[b] + received[b] <= ResponseLen
      BY <1>1, <2>1 DEF ConnectionInv, ConnectionTypes, Fresh
    <3>2. write_buffer_len'[b] \in Nat /\ write_buffer_len'[b] + received'[b] <= ResponseLen
          /\ write_buffer_len'[b] < write_buffer_len[b]
      BY <2>1, <2>2, <2>6, <3>1 DEF ResponseLen
    <3>3. connection[b] = "open" => write_buffer_len'[b] + received'[b] = write_buffer_len[b] + received[b]
      BY <2>1, <2>2, <2>6
    <3>4. ASSUME b \in deleting', connection[b] = "open" PROVE received'[b] = ResponseLen
      <4>1. CASE b \in deleting
        BY <1>1, <2>1, <3>1, <3>4, <4>1 DEF ConnectionInv, ResponseLen
      <4>2. CASE b \notin deleting
        <5>1. b \in close_pending /\ write_buffer_len'[b] = 0
          BY <2>4, <3>4, <4>2
        <5>2. write_buffer_len[b] + received[b] = ResponseLen
          BY <1>1, <3>1, <3>4, <5>1 DEF ConnectionInv
        <5>3. received'[b] \in Nat
          BY <2>1, <2>2, <2>6
        <5> QED BY <3>3, <3>4, <5>1, <5>2, <5>3 DEF ResponseLen
      <4> QED BY <4>1, <4>2
    <3>5. job' = IdleJob
      BY <1>1, <2>5
    <3> QED
      BY <1>1, <2>5, <3>1, <3>2, <3>3, <3>4, <3>5 DEF ConnectionInv
  <2>9. Elsewhere(b)
    BY <1>1, <2>3, <2>4, <2>5 DEF ConnectionTypes, Elsewhere
  <2> QED BY <2>7, <2>8, <2>9, OthersUntouched
<1>6. CASE Sweep(b)
  <2>1. ConnectionTypes'
    <3>1. /\ connection' \in [Browsers -> {"none", "connecting", "open", "closed"}]
          /\ inbox' \in [Browsers -> Nat] /\ read_buffer' \in [Browsers -> Nat]
          /\ write_buffer_len' \in [Browsers -> Nat] /\ received' \in [Browsers -> Nat]
      BY <1>1, <1>6 DEF Sweep, ConnectionTypes
    <3>2. /\ close_pending' \subseteq sockets' /\ deleting' \subseteq sockets'
          /\ unanswered' \subseteq close_pending' /\ sockets' \subseteq Browsers
      BY <1>1, <1>6 DEF Sweep, ConnectionTypes
    <3> QED BY <3>1, <3>2 DEF ConnectionTypes
  <2>2. ConnectionInv(b)'
    BY <1>1, <1>6 DEF Sweep, ConnectionTypes, ConnectionInv, Fresh, ResponseLen
  <2>3. Elsewhere(b)
    BY <1>1, <1>6 DEF Sweep, ConnectionTypes, Elsewhere
  <2> QED BY <2>1, <2>2, <2>3, OthersUntouched
<1> QED
  BY <1>2, <1>3, <1>4, <1>5, <1>6

LEMMA EndKeepsConnections ==
    ASSUME ServerInv, NoResponse \/ NullPage \/ end_response
    PROVE  ConnectionTypes' /\ \A c \in Browsers : ConnectionInv(c)'
<1>1. job # IdleJob
  BY DEF NoResponse, NullPage, end_response, AtStep, IdleJob
<1>0. PICK b \in Browsers : b = job.browser
  BY <1>1 DEF ServerInv, JobInv, Requests
<1>2. ConnectionTypes /\ b = job.browser /\ b \in sockets
  BY <1>0, <1>1 DEF ServerInv, JobInv
<1>3. ConnectionInv(b) /\ read_buffer[b] = 2 /\ Fresh(b)
  <2>1. ConnectionInv(b)
    BY <1>2 DEF ServerInv
  <2> QED BY <1>1, <1>2, <2>1 DEF ConnectionInv
<1>4. CASE NoResponse
  <2>1. ConnectionTypes'
    BY <1>2, <1>4 DEF NoResponse, close_when_written, ConnectionTypes, browserVars
  <2>2. ConnectionInv(b)'
    BY <1>2, <1>3, <1>4 DEF NoResponse, close_when_written, ConnectionInv, Fresh, browserVars
  <2>3. Elsewhere(b)
    BY <1>2, <1>4 DEF NoResponse, close_when_written, Elsewhere, browserVars
  <2> QED BY <1>2, <2>1, <2>2, <2>3, OthersUntouched
<1>5. CASE end_response
  <2>1. ConnectionTypes'
    BY <1>2, <1>5 DEF end_response, close_when_written, ConnectionTypes, browserVars, ResponseLen
  <2>2. write_buffer_len'[b] = ResponseLen
    BY <1>2, <1>3, <1>5 DEF end_response, ConnectionTypes, Fresh, ResponseLen
  <2>3. ConnectionInv(b)'
    <3>1. /\ close_pending' = close_pending \cup {b} /\ job' = IdleJob
          /\ UNCHANGED <<connection, inbox, received, read_buffer, sockets, deleting, unanswered>>
      BY <1>2, <1>5 DEF end_response, close_when_written, browserVars
    <3>2. received[b] = 0 /\ b \notin unanswered
      BY <1>2, <1>3 DEF Fresh, ConnectionTypes
    <3> QED BY <1>3, <2>2, <3>1, <3>2 DEF ConnectionInv, ResponseLen
  <2>4. Elsewhere(b)
    BY <1>2, <1>5 DEF end_response, close_when_written, ConnectionTypes, Elsewhere, browserVars
  <2> QED BY <1>2, <2>1, <2>3, <2>4, OthersUntouched
<1>6. CASE NullPage
  BY <1>6 DEF NullPage, ConnectionTypes, ConnectionInv, Fresh, ResponseLen
<1> QED
  BY <1>4, <1>5, <1>6

LEMMA ServerInvNext == ServerInv /\ [Next]_vars => ServerInv'
<1> SUFFICES ASSUME ServerInv, [Next]_vars PROVE ServerInv'
  OBVIOUS
<1>1. JobInv' /\ ComparedInv' /\ FileInv'
  BY JobInvNext, ComparedInvNext, FileInvNext
<1>2. ConnectionTypes' /\ \A b \in Browsers : ConnectionInv(b)'
  <2>1. CASE browser
    BY <2>1, BrowserKeepsConnections
  <2>2. CASE Within
    BY <2>2, ConnectionsUntouched, RequestGoesOn DEF GoesOn
  <2>3. CASE edit \/ UNCHANGED vars
    <3>1. UNCHANGED <<browserVars, socketVars, unanswered, job>>
      BY <2>3 DEF edit, Tick, Replace, Remove, vars
    <3> QED BY <3>1, ConnectionsUntouched
  <2>4. CASE NoResponse \/ NullPage \/ end_response
    BY <2>4, EndKeepsConnections
  <2>5. CASE \E b \in Browsers : on_web_connection(b) \/ on_readable(b) \/ ReadEnd(b)
                                    \/ on_writable(b) \/ Sweep(b)
    BY <2>5, ServiceKeepsConnections
  <2> QED BY <2>1, <2>2, <2>3, <2>4, <2>5 DEF Next, server, process, Within
<1> QED BY <1>1, <1>2 DEF ServerInv
-----------------------------------------------------------------------------
(***************************************************************************)
(* What is in memory and what is in the file.  While a file is first read  *)
(* the memory does not have it yet; the version that was opened is then    *)
(* the file's, unless the file was replaced in between.                    *)
(***************************************************************************)
OpenedInv ==
    job.step = "opened" /\ job.reads \notin excused /\ Exists(job.reads) =>
        job.holds = file[job.reads].version

StaleInv == StaleIsNoticed /\ OpenedInv /\ NullPageWasUnnoticed

LEMMA StaleInvInit == Init => StaleInv
  BY DEF Init, StaleInv, StaleIsNoticed, OpenedInv, NullPageWasUnnoticed, AtStep, IdleJob, Files

LEMMA OpenedInvNext == ServerInv /\ StaleInv /\ [Next]_vars => OpenedInv'
<1> SUFFICES ASSUME ServerInv, StaleInv, [Next]_vars PROVE OpenedInv'
  OBVIOUS
<1>0. OpenedInv /\ JobInv /\ FileInv
  BY DEF StaleInv, ServerInv
<1>1. CASE job'.step # "opened"
  BY <1>1 DEF OpenedInv
<1>2. CASE UNCHANGED <<job, file, excused>>
  BY <1>0, <1>2 DEF OpenedInv, Exists
<1>3. CASE edit
  <2>1. CASE Tick
    BY <1>2, <2>1 DEF Tick
  <2>2. ASSUME NEW f \in Files, Replace(f) PROVE OpenedInv'
    <3>1. UNCHANGED job
      BY <2>2 DEF Replace
    <3>2. CASE job.step = "opened" /\ job.reads = f
      BY <2>2, <3>1, <3>2 DEF Replace, Opened, AtStep, OpenedInv
    <3>3. CASE ~(job.step = "opened" /\ job.reads = f)
      BY <1>0, <2>2, <3>1, <3>3 DEF Replace, Opened, OpenedInv, Exists, FileInv, JobInv
    <3> QED BY <3>2, <3>3
  <2>3. ASSUME NEW f \in Files, Remove(f) PROVE OpenedInv'
    BY <1>0, <2>3 DEF Remove, OpenedInv, Exists, FileInv, JobInv
  <2> QED BY <1>3, <2>1, <2>2, <2>3 DEF edit
<1>4. CASE Fopen
  <2>1. job \in Requests
    BY <1>0, <1>4, Busy DEF Fopen, AtStep
  <2> DEFINE j == [job EXCEPT !.step = "opened"]
  <2>2. j \in Requests /\ j.reads = job.reads
    BY <2>1, StepChanged DEF Steps
  <2>3. job' = [j EXCEPT !.holds = file[job.reads].version] /\ job.reads \in Files
    BY <1>4 DEF Fopen
  <2>4. file[job.reads].version \in 0 .. MaxEdits
    BY <2>3, Values
  <2> HIDE DEF j
  <2>5. job'.reads = job.reads /\ job'.holds = file[job.reads].version
    BY <2>2, <2>3, <2>4, HoldsChanged
  <2> QED BY <1>4, <2>5 DEF Fopen, OpenedInv, fileVars
<1>5. ASSUME NEW code \in {200, 404}, job \in Requests, NextPart(code) PROVE OpenedInv'
  BY <1>1, <1>5, NextPartGoesOn
<1>6. CASE Within
  <2>1. job \in Requests /\ job.code \in {200, 404}
    <3>1. job.step # "idle"
      BY <1>6 DEF Within, FindCallback, FindCached, Fopen, FopenFails, Construct,
                  StatChanged, StatSame, Reload, ReloadFails, AtStep
    <3> QED BY <1>0, <3>1, Busy
  <2>2. CASE FindCached
    <3> DEFINE j == [job EXCEPT !.step = "stat"]
    <3>1. j \in Requests /\ j.step = "stat"
      BY <2>1, StepChanged DEF Steps
    <3>2. job' = [j EXCEPT !.from = IF job.reads \in Pages THEN "memory" ELSE job.from]
          /\ job.from \in {"disk", "memory"}
      BY <2>1, <2>2 DEF FindCached, Requests
    <3> HIDE DEF j
    <3>3. job'.step = "stat"
      BY <3>1, <3>2, FromChanged
    <3> QED BY <1>1, <3>3
  <2>3. CASE Construct
    <3>1. CASE job.reads \in Pages
      <4> DEFINE j == [job EXCEPT !.step = "stat"]
      <4>1. j \in Requests /\ j.step = "stat"
        BY <2>1, StepChanged DEF Steps
      <4>2. job' = [j EXCEPT !.holds = 0] /\ 0 \in 0 .. MaxEdits
        BY <2>3, <3>1, WebAssumption DEF Construct
      <4> HIDE DEF j
      <4>3. job'.step = "stat"
        BY <4>1, <4>2, HoldsChanged
      <4> QED BY <1>1, <4>3
    <3> QED BY <1>5, <2>1, <2>3, <3>1 DEF Construct
  <2>4. CASE StatChanged
    <3>1. job'.step = "reload"
      BY <2>1, <2>4, StepChanged DEF StatChanged, ToStep, Steps
    <3> QED BY <1>1, <3>1
  <2>5. CASE StatSame
    <3>1. CASE ToStep("null")
      <4>1. job'.step = "null"
        BY <2>1, <3>1, StepChanged DEF ToStep, Steps
      <4> QED BY <1>1, <4>1
    <3> QED BY <1>5, <2>1, <2>5, <3>1 DEF StatSame
  <2>6. CASE FindCallback \/ FopenFails \/ Reload \/ ReloadFails
    BY <1>5, <2>1, <2>6 DEF FindCallback, FopenFails, Reload, ReloadFails
  <2> QED BY <1>4, <1>6, <2>2, <2>3, <2>4, <2>5, <2>6 DEF Within
<1>7. CASE NoResponse \/ NullPage \/ end_response
  BY <1>1, <1>7 DEF NoResponse, NullPage, end_response, IdleJob
<1>8. CASE browser \/ UNCHANGED vars
  BY <1>2, <1>8 DEF browser, Connect, SendRequest, Close, fileVars, vars
<1>9. ASSUME NEW b \in Browsers,
             on_web_connection(b) \/ on_readable(b) \/ ReadEnd(b) \/ on_writable(b) \/ Sweep(b)
      PROVE  OpenedInv'
  <2>1. CASE on_readable(b)
    BY <1>1, <1>2, <2>1 DEF on_readable, fileVars
  <2> QED BY <1>2, <1>9, <2>1 DEF on_web_connection, ReadEnd, on_writable, Sweep, fileVars
<1> QED
  BY <1>3, <1>6, <1>7, <1>8, <1>9 DEF Next, server, process, Within

\* StaleIsNoticed of one file.
Noticed(f) ==
    f \notin excused /\ cache[f] # NotCached /\ Exists(f) /\ ~(AtStep("reload") /\ job.reads = f) =>
        \/ cache[f].content = file[f].version
        \/ cache[f].last_modified # file[f].mtime

LEMMA NoticedIsStaleIsNoticed == StaleIsNoticed <=> \A f \in Files : Noticed(f)
  BY DEF StaleIsNoticed, Noticed

\* A step that leaves file and memory alone, or ends a reload of what is gone.
LEMMA NoticedUntouched ==
    ASSUME NEW f \in Files, Noticed(f), UNCHANGED <<file, cache>>,
           f \in excused => f \in excused',
           AtStep("reload") /\ job.reads = f => ~Exists(f) \/ UNCHANGED job
    PROVE  Noticed(f)'
  BY DEF Noticed, Exists, AtStep

LEMMA StaleIsNoticedNext == ServerInv /\ StaleInv /\ [Next]_vars => StaleIsNoticed'
<1> SUFFICES ASSUME ServerInv, StaleInv, [Next]_vars, NEW f \in Files PROVE Noticed(f)'
  BY NoticedIsStaleIsNoticed DEF StaleIsNoticed, Noticed
<1>0. OpenedInv /\ JobInv /\ FileInv /\ Noticed(f)
  BY NoticedIsStaleIsNoticed DEF StaleInv, ServerInv
<1>1. CASE edit
  <2>1. CASE Tick
    BY <1>0, <2>1, NoticedUntouched DEF Tick
  <2>2. ASSUME NEW g \in Files, Replace(g) PROVE Noticed(f)'
    <3>1. CASE g = f
      <4>1. file'[f].mtime = now /\ UNCHANGED <<cache, job>>
        BY <1>0, <2>2, <3>1 DEF Replace, FileInv
      <4>2. cache[f].last_modified = now => f \in excused'
        BY <2>2, <3>1 DEF Replace
      <4> QED BY <4>1, <4>2 DEF Noticed
    <3>2. CASE g # f
      BY <1>0, <2>2, <3>2 DEF Replace, Noticed, Exists, FileInv, AtStep
    <3> QED BY <3>1, <3>2
  <2>3. ASSUME NEW g \in Files, Remove(g) PROVE Noticed(f)'
    BY <1>0, <2>3 DEF Remove, Noticed, Exists, FileInv, AtStep
  <2> QED BY <1>1, <2>1, <2>2, <2>3 DEF edit
<1>2. CASE Construct
  <2>1. job.reads \in Files /\ job.step = "opened"
    BY <1>0, <1>2 DEF Construct, AtStep, JobInv
  <2>2. PICK t \in Stat(job.reads) :
          cache' = [cache EXCEPT ![job.reads] = [content |-> job.holds, last_modified |-> t]]
    BY <1>2 DEF Construct
  <2>3. UNCHANGED file /\ excused' = excused \cup Unset(job.reads)
    BY <1>2 DEF Construct, fileVars
  <2>4. CASE f = job.reads
    <3>1. cache'[f] = [content |-> job.holds, last_modified |-> t]
      BY <1>0, <2>2, <2>4 DEF FileInv
    <3>2. f \notin excused' /\ Exists(f) => job.holds = file[f].version
      BY <1>0, <2>1, <2>3, <2>4 DEF OpenedInv
    <3> QED BY <2>3, <3>1, <3>2 DEF Noticed, Exists
  <2>5. CASE f # job.reads
    <3>1. cache'[f] = cache[f]
      BY <2>2, <1>0, <2>5 DEF FileInv
    <3>2. ~(AtStep("reload") /\ job.reads = f)
      BY <2>5
    <3> QED BY <1>0, <2>3, <3>1, <3>2 DEF Noticed, Exists
  <2> QED BY <2>4, <2>5
<1>3. CASE StatChanged
  <2>1. job.reads \in Files /\ job \in Requests
    BY <1>0, <1>3, Busy DEF StatChanged, AtStep, JobInv
  <2>2. job'.step = "reload" /\ job'.reads = job.reads
    BY <1>3, <2>1, StepChanged DEF StatChanged, ToStep, Steps
  <2>3. CASE f = job.reads
    BY <2>2, <2>3 DEF Noticed, AtStep
  <2>4. CASE f # job.reads
    <3>1. cache'[f] = cache[f]
      BY <1>0, <1>3, <2>4 DEF StatChanged, FileInv
    <3> QED BY <1>0, <1>3, <2>4, <3>1 DEF StatChanged, Noticed, Exists, AtStep, fileVars
  <2> QED BY <2>3, <2>4
<1>4. CASE StatSame
  BY <1>0, <1>4, NoticedUntouched DEF StatSame, AtStep, fileVars
<1>5. CASE Reload
  <2>1. job.reads \in Files
    BY <1>0, <1>5 DEF Reload, AtStep, JobInv
  <2>2. cache' = [cache EXCEPT ![job.reads] = Reloaded(job.reads)] /\ UNCHANGED file
        /\ excused' = excused \ {job.reads}
    BY <1>5 DEF Reload, fileVars
  <2>3. CASE f = job.reads
    <3>1. cache[f] \in [content : 0 .. MaxEdits, last_modified : Times]
      BY <1>0, <1>5, <2>3 DEF ServerInv, ComparedInv, FileInv, Reload, AtStep
    <3>2. cache'[f].content = file[f].version
      BY <1>0, <2>2, <2>3, <3>1 DEF FileInv, Reloaded
    <3> QED BY <2>2, <3>2 DEF Noticed
  <2>4. CASE f # job.reads
    <3>1. cache'[f] = cache[f]
      BY <1>0, <2>2, <2>4 DEF FileInv
    <3> QED BY <1>0, <2>2, <2>4, <3>1 DEF Noticed, Exists
  <2> QED BY <2>3, <2>4
<1>6. CASE NullPage
  BY <1>6 DEF NullPage, Noticed
<1>7. CASE ReloadFails \/ NoResponse
  BY <1>0, <1>7, NoticedUntouched DEF ReloadFails, NoResponse, AtStep, fileVars
<1>8. CASE FindCallback \/ FindCached \/ Fopen \/ FopenFails \/ end_response
  BY <1>0, <1>8, NoticedUntouched DEF FindCallback, FindCached, Fopen, FopenFails,
     end_response, AtStep, fileVars
<1>9. CASE browser \/ UNCHANGED vars
  BY <1>0, <1>9, NoticedUntouched DEF browser, Connect, SendRequest, Close, fileVars, vars
<1>10. ASSUME NEW b \in Browsers,
             on_web_connection(b) \/ on_readable(b) \/ ReadEnd(b) \/ on_writable(b) \/ Sweep(b)
       PROVE  Noticed(f)'
  <2>1. ~AtStep("reload") /\ UNCHANGED <<file, cache, excused>>
    BY <1>10 DEF on_web_connection, on_readable, ReadEnd, on_writable, Sweep, Idle, IdleJob,
                 AtStep, fileVars
  <2> QED BY <1>0, <2>1, NoticedUntouched
<1> QED
  BY <1>1, <1>2, <1>3, <1>4, <1>5, <1>6, <1>7, <1>8, <1>9, <1>10 DEF Next, server, process

\* A page is shown without a text only if the time of its file is the one noted:
\* then the file is gone, and excused for it, or it is what is in memory.
LEMMA NullPageNext == ServerInv /\ StaleInv /\ [Next]_vars => NullPageWasUnnoticed'
<1> SUFFICES ASSUME ServerInv, StaleInv, [Next]_vars PROVE NullPageWasUnnoticed'
  OBVIOUS
<1>0. JobInv /\ FileInv /\ NullPageWasUnnoticed
  BY DEF StaleInv, ServerInv
<1>1. CASE job'.step # "null"
  BY <1>1 DEF NullPageWasUnnoticed, AtStep
<1>2. CASE UNCHANGED job /\ excused \subseteq excused'
  BY <1>0, <1>2 DEF NullPageWasUnnoticed, AtStep
<1>3. ASSUME NEW code \in {200, 404}, job \in Requests, NextPart(code)
      PROVE  NullPageWasUnnoticed'
  BY <1>1, <1>3, NextPartGoesOn
<1>4. CASE Within
  <2>1. job \in Requests /\ job.code \in {200, 404}
    <3>1. job.step # "idle"
      BY <1>4 DEF Within, FindCallback, FindCached, Fopen, FopenFails, Construct,
                  StatChanged, StatSame, Reload, ReloadFails, AtStep
    <3> QED BY <1>0, <3>1, Busy
  <2>2. CASE FindCached
    <3> DEFINE j == [job EXCEPT !.step = "stat"]
    <3>1. j \in Requests /\ j.step = "stat"
      BY <2>1, StepChanged DEF Steps
    <3>2. job' = [j EXCEPT !.from = IF job.reads \in Pages THEN "memory" ELSE job.from]
          /\ job.from \in {"disk", "memory"}
      BY <2>1, <2>2 DEF FindCached, Requests
    <3> HIDE DEF j
    <3>3. job'.step = "stat"
      BY <3>1, <3>2, FromChanged
    <3> QED BY <1>1, <3>3
  <2>3. CASE Fopen
    <3> DEFINE j == [job EXCEPT !.step = "opened"]
    <3>1. j \in Requests /\ j.step = "opened"
      BY <2>1, StepChanged DEF Steps
    <3>2. job' = [j EXCEPT !.holds = file[job.reads].version]
          /\ file[job.reads].version \in 0 .. MaxEdits
      BY <2>3, Values DEF Fopen
    <3> HIDE DEF j
    <3>3. job'.step = "opened"
      BY <3>1, <3>2, HoldsChanged
    <3> QED BY <1>1, <3>3
  <2>4. CASE Construct
    <3>1. CASE job.reads \in Pages
      <4> DEFINE j == [job EXCEPT !.step = "stat"]
      <4>1. j \in Requests /\ j.step = "stat"
        BY <2>1, StepChanged DEF Steps
      <4>2. job' = [j EXCEPT !.holds = 0] /\ 0 \in 0 .. MaxEdits
        BY <2>4, <3>1, WebAssumption DEF Construct
      <4> HIDE DEF j
      <4>3. job'.step = "stat"
        BY <4>1, <4>2, HoldsChanged
      <4> QED BY <1>1, <4>3
    <3> QED BY <1>3, <2>1, <2>4, <3>1 DEF Construct
  <2>5. CASE StatChanged
    <3>1. job'.step = "reload"
      BY <2>1, <2>5, StepChanged DEF StatChanged, ToStep, Steps
    <3> QED BY <1>1, <3>1
  <2>6. CASE StatSame /\ ToStep("null")
    <3>1. job.reads \in Files /\ job.step = "stat" /\ excused' = excused \cup Unset(job.reads)
      BY <1>0, <2>6 DEF StatSame, AtStep, JobInv
    <3>2. job'.reads = job.reads
      BY <2>1, <2>6, StepChanged DEF ToStep, Steps
    <3>3. CASE ~Exists(job.reads)
      BY <3>1, <3>2, <3>3 DEF Unset, NullPageWasUnnoticed
    <3>4. CASE Exists(job.reads) /\ cache[job.reads].content = NoContent
      <4>1. cache[job.reads].last_modified = file[job.reads].mtime
        BY <2>6, <3>4 DEF StatSame, Stat
      <4>2. cache[job.reads] # NotCached
        BY <3>1 DEF ServerInv, ComparedInv
      <4>3. job.reads \in excused
        BY <3>1, <3>4, <4>1, <4>2 DEF StaleInv, StaleIsNoticed, AtStep, Exists, NoContent
      <4> QED BY <3>1, <3>2, <4>3 DEF NullPageWasUnnoticed
    <3>5. CASE cache[job.reads].content # NoContent
      BY <1>3, <2>1, <2>6, <3>5 DEF StatSame
    <3> QED BY <3>3, <3>4, <3>5
  <2>7. CASE StatSame /\ ~ToStep("null")
    BY <1>3, <2>1, <2>7 DEF StatSame
  <2>8. CASE FindCallback \/ FopenFails \/ Reload \/ ReloadFails
    BY <1>3, <2>1, <2>8 DEF FindCallback, FopenFails, Reload, ReloadFails
  <2> QED BY <1>4, <2>2, <2>3, <2>4, <2>5, <2>6, <2>7, <2>8 DEF Within
<1>5. CASE NoResponse \/ NullPage \/ end_response
  BY <1>1, <1>5 DEF NoResponse, NullPage, end_response, IdleJob
<1>6. CASE edit \/ browser \/ UNCHANGED vars
  BY <1>2, <1>6 DEF edit, Tick, Replace, Remove, browser, Connect, SendRequest, Close, vars
<1>7. ASSUME NEW b \in Browsers,
             on_web_connection(b) \/ on_readable(b) \/ ReadEnd(b) \/ on_writable(b) \/ Sweep(b)
      PROVE  NullPageWasUnnoticed'
  <2>1. CASE on_readable(b)
    BY <1>1, <1>2, <2>1 DEF on_readable
  <2> QED BY <1>2, <1>7, <2>1 DEF on_web_connection, ReadEnd, on_writable, Sweep
<1> QED
  BY <1>4, <1>5, <1>6, <1>7 DEF Next, server, process, Within
-----------------------------------------------------------------------------
(* The theorems.                                                           *)

\* Whatever browsers ask and whoever edits files, every variable keeps its type:
\* a request is processed once, and no more than its response is ever written.
THEOREM TypeCorrect == Spec => []TypeOK
<1>1. Spec => []ServerInv
  BY ServerInvInit, ServerInvNext, PTL DEF Spec
<1> QED BY <1>1, TypeFromServerInv, PTL

\* web_socket.cpp compares a file in memory with the file's time: outside the three
\* cases that StaleIsNoticed names, what it has is never taken for what it is not.
THEOREM StaleFilesAreNoticed == Spec => []StaleIsNoticed
<1>1. StaleInv => StaleIsNoticed
  BY DEF StaleInv
<1>2. ServerInv /\ StaleInv /\ [Next]_vars => StaleInv'
  BY StaleIsNoticedNext, OpenedInvNext, NullPageNext DEF StaleInv
<1> QED
  BY <1>1, <1>2, ServerInvInit, ServerInvNext, StaleInvInit, PTL DEF Spec

\* WebPage::process reads html_file where it is 0 only in those cases.
THEOREM NullPagesAreUnnoticed == Spec => []NullPageWasUnnoticed
<1>1. StaleInv => NullPageWasUnnoticed
  BY DEF StaleInv
<1>2. ServerInv /\ StaleInv /\ [Next]_vars => StaleInv'
  BY StaleIsNoticedNext, OpenedInvNext, NullPageNext DEF StaleInv
<1> QED
  BY <1>1, <1>2, ServerInvInit, ServerInvNext, StaleInvInit, PTL DEF Spec

\* close_when_written: a connection is deleted by the server when the last byte of
\* its response has been sent, for any BUFFER_SIZE.
THEOREM ResponsesAreWhole == Spec => WholeResponses
<1> DEFINE Whole ==
      \A b \in Browsers :
          b \in sockets \ sockets' /\ connection[b] = "open" /\ ~AtStep("null")
              => received[b] = ResponseLen
<1>1. ASSUME ServerInv, [Next]_vars PROVE [Whole]_vars
  <2> SUFFICES ASSUME Next, NEW b \in Browsers, b \in sockets, b \notin sockets',
                      connection[b] = "open", ~AtStep("null")
               PROVE  received[b] = ResponseLen
    BY <1>1
  <2>1. ConnectionInv(b)
    BY <1>1 DEF ServerInv
  <2>2. Sweep(b)
    <3>1. CASE edit \/ browser
      BY <3>1 DEF edit, Tick, Replace, Remove, browser, Connect, SendRequest, Close, socketVars
    <3>2. CASE Within
      BY <1>1, <3>2, RequestGoesOn DEF GoesOn, socketVars
    <3>3. CASE NoResponse \/ NullPage \/ end_response
      BY <3>3 DEF NoResponse, NullPage, end_response
    <3>4. ASSUME NEW c \in Browsers,
                 on_web_connection(c) \/ on_readable(c) \/ ReadEnd(c) \/ on_writable(c) \/ Sweep(c)
          PROVE  Sweep(b)
      BY <3>4 DEF on_web_connection, on_readable, ReadEnd, on_writable, Sweep
    <3> QED BY <3>1, <3>2, <3>3, <3>4 DEF Next, server, process, Within
  <2> QED BY <2>1, <2>2 DEF Sweep, ConnectionInv
<1> QED
  BY <1>1, ServerInvInit, ServerInvNext, PTL DEF Spec, WholeResponses
=============================================================================
