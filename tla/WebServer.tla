----------------------------- MODULE WebServer -----------------------------
(***************************************************************************)
(* The status pages of the server (server/src/web_socket.cpp and the page  *)
(* and parts that main.cpp registers): the connections of browsers, which  *)
(* end by both deletion flags at once, and the pages and parts kept in     *)
(* memory, which are files that somebody edits while the server runs.  The *)
(* main thread serves one request at a time; between its system calls      *)
(* files are replaced and removed.  Files are replaced as editors do, by   *)
(* renaming a new one, so that a file once opened is read as it was.       *)
(*                                                                         *)
(* The poll loop, the pipe into which each write_data puts a byte, and     *)
(* what becomes of a write to a connection that was reset are in           *)
(* SocketPoll.tla.  A browser sends one request on a connection, for it is *)
(* answered with "Connection: close".                                      *)
(***************************************************************************)
EXTENDS Integers, FiniteSets

CONSTANTS
    Browsers,
    Pages,          \* files under html/
    Parts,          \* files under parts/, all of which a page includes
    Callbacks,      \* pages registered with a function, /server/uptime
    BufferSize,     \* BUFFER_SIZE: what is sent at once, of the five of a response
    MaxTime,        \* bound: seconds that pass
    MaxEdits        \* bound: replacements of files

ASSUME WebAssumption ==
    /\ Pages \cap Parts = {} /\ Callbacks \cap (Pages \cup Parts) = {}
    /\ BufferSize \in Nat \ {0} /\ MaxTime \in Nat /\ MaxEdits \in Nat \ {0}

VARIABLES
    file,           \* per file: its version and time, version 0 if there is none
    now,            \* the second it is
    edits,          \* replacements so far, which number the versions
    cache,          \* all_webpages, all_webparts: what is in memory of each file
    connection,     \* the browsers' end: none, connecting, open or closed
    inbox,          \* pieces of the request on their way, of two
    read_buffer,    \* pieces that have been read
    write_buffer_len, close_pending,
    received,       \* how much of the response a browser has
    sockets, deleting,  \* deleting: delete_pending and delete_ready
    job,            \* the request that is being processed
    excused,        \* files changed so that their times do not show it
    unanswered      \* browsers whose page could not be read again

fileVars == <<file, now, edits>>
browserVars == <<connection, inbox, received>>
socketVars == <<read_buffer, write_buffer_len, close_pending, sockets, deleting>>
vars == <<fileVars, cache, browserVars, socketVars, job, excused, unanswered>>

Files == Pages \cup Parts
Times == 0 .. MaxTime

NotCached == [content |-> -1, last_modified |-> -1]
NoContent == 0
IdleJob == [browser |-> "none", step |-> "idle"]

\* WebRequest::end_response makes five calls of write_data.
ResponseLen == 5
-----------------------------------------------------------------------------
(* Those who edit the files.                                               *)

Exists(f) == file[f].version # 0

Opened(f) == job.step = "opened" /\ job.reads = f

Tick ==
    /\ now < MaxTime
    /\ now' = now + 1
    /\ UNCHANGED <<file, edits, cache, browserVars, socketVars, job, excused, unanswered>>

\* A change does not show when the file gets the time that is noted already, or
\* comes between opening the old file and taking the time of the new.
Replace(f) ==
    /\ edits < MaxEdits
    /\ edits' = edits + 1
    /\ file' = [file EXCEPT ![f] = [version |-> edits + 1, mtime |-> now]]
    /\ excused' = IF Opened(f) \/ cache[f].last_modified = now
                  THEN excused \cup {f} ELSE excused
    /\ UNCHANGED <<now, cache, browserVars, socketVars, job, unanswered>>

Remove(f) ==
    /\ Exists(f)
    /\ file' = [file EXCEPT ![f] = [version |-> 0, mtime |-> 0]]
    /\ UNCHANGED <<now, edits, cache, browserVars, socketVars, job, excused, unanswered>>

edit == Tick \/ \E f \in Files : Replace(f) \/ Remove(f)
-----------------------------------------------------------------------------
(* The browsers.                                                           *)

Connect(b) ==
    /\ connection[b] = "none"
    /\ connection' = [connection EXCEPT ![b] = "connecting"]
    /\ UNCHANGED <<fileVars, cache, inbox, received, socketVars, job, excused, unanswered>>

\* The request comes in one piece or in two.
SendRequest(b) ==
    /\ connection[b] = "open"
    /\ \E n \in 1 .. 2 - inbox[b] - read_buffer[b] : inbox' = [inbox EXCEPT ![b] = @ + n]
    /\ UNCHANGED <<fileVars, cache, connection, received, socketVars, job,
                   excused, unanswered>>

Close(b) ==
    /\ connection[b] = "open"
    /\ connection' = [connection EXCEPT ![b] = "closed"]
    /\ UNCHANGED <<fileVars, cache, inbox, received, socketVars, job, excused,
                   unanswered>>

browser == \E b \in Browsers : Connect(b) \/ SendRequest(b) \/ Close(b)
-----------------------------------------------------------------------------
(* The main thread between requests.                                       *)

Idle == job = IdleJob

on_web_connection(b) ==
    /\ Idle
    /\ connection[b] = "connecting"
    /\ connection' = [connection EXCEPT ![b] = "open"]
    /\ sockets' = sockets \cup {b}
    /\ UNCHANGED <<fileVars, cache, inbox, received, read_buffer, write_buffer_len,
                   close_pending, deleting, job, excused, unanswered>>

\* on_readable: the request is processed when its end has come.
on_readable(b) ==
    /\ Idle
    /\ b \in sockets \ deleting
    /\ inbox[b] > 0
    /\ read_buffer' = [read_buffer EXCEPT ![b] = @ + inbox[b]]
    /\ inbox' = [inbox EXCEPT ![b] = 0]
    /\ IF read_buffer'[b] = 2
       THEN \E p \in Pages \cup Callbacks :
              job' = [browser |-> b, step |-> "find", reads |-> p, from |-> "disk",
                      holds |-> 0, code |-> 200, parts |-> Parts]
       ELSE UNCHANGED job
    /\ UNCHANGED <<fileVars, cache, connection, received, write_buffer_len,
                   close_pending, sockets, deleting, excused, unanswered>>

ReadEnd(b) ==
    /\ Idle
    /\ b \in sockets \ deleting
    /\ inbox[b] = 0 /\ connection[b] = "closed"
    /\ deleting' = deleting \cup {b}
    /\ UNCHANGED <<fileVars, cache, browserVars, read_buffer, write_buffer_len,
                   close_pending, sockets, job, excused, unanswered>>

SlipSendBlock(len) == BufferSize

Sending(len) == IF len > BufferSize THEN BufferSize ELSE len

SlipCloseOnceSent(b, len) == b \in close_pending

AllWritten(b, len) == b \in close_pending /\ len = 0

on_writable(b) ==
    /\ Idle
    /\ b \in sockets
    /\ write_buffer_len[b] > 0
    /\ LET n == Sending(write_buffer_len[b])
       IN  /\ write_buffer_len' = [write_buffer_len EXCEPT ![b] = @ - n]
           /\ received' = [received EXCEPT ![b] = IF connection[b] = "open" THEN @ + n ELSE @]
    /\ deleting' = IF AllWritten(b, write_buffer_len'[b]) THEN deleting \cup {b} ELSE deleting
    /\ UNCHANGED <<fileVars, cache, connection, inbox, read_buffer, close_pending,
                   sockets, job, excused, unanswered>>

\* delete sl, at the end of the poll in which both flags were set.
Sweep(b) ==
    /\ Idle
    /\ b \in deleting
    /\ sockets' = sockets \ {b}
    /\ deleting' = deleting \ {b}
    /\ close_pending' = close_pending \ {b}
    /\ read_buffer' = [read_buffer EXCEPT ![b] = 0]
    /\ write_buffer_len' = [write_buffer_len EXCEPT ![b] = 0]
    /\ inbox' = [inbox EXCEPT ![b] = 0]
    /\ connection' = [connection EXCEPT ![b] = "none"]
    /\ received' = [received EXCEPT ![b] = 0]
    /\ unanswered' = unanswered \ {b}
    /\ UNCHANGED <<fileVars, cache, job, excused>>
-----------------------------------------------------------------------------
(* A request: WebRequest::process with WebPage::find, open and process, and*)
(* WebPart::get for each part that the page includes.                      *)

AtStep(s) == job.step = s

ToStep(s) == job' = [job EXCEPT !.step = s]

\* The next thing to include, or else the end of the response.
NextPart(code) ==
    IF job.parts = {}
    THEN job' = [job EXCEPT !.step = "respond", !.holds = 0, !.code = code]
    ELSE \E p \in job.parts :
            job' = [job EXCEPT !.step = "find", !.holds = 0, !.code = code, !.reads = p,
                               !.parts = @ \ {p}]

\* A registered page needs no file; of a file not in memory, open makes one.
FindCallback ==
    /\ AtStep("find") /\ job.reads \in Callbacks
    /\ NextPart(200)
    /\ UNCHANGED <<fileVars, cache, browserVars, socketVars, excused, unanswered>>

FindCached ==
    /\ AtStep("find") /\ job.reads \in Files /\ cache[job.reads] # NotCached
    /\ job' = [job EXCEPT !.step = "stat", !.from = IF job.reads \in Pages THEN "memory" ELSE @]
    /\ UNCHANGED <<fileVars, cache, browserVars, socketVars, excused, unanswered>>

Fopen ==
    /\ AtStep("find") /\ job.reads \in Files /\ cache[job.reads] = NotCached
    /\ Exists(job.reads)
    /\ job' = [job EXCEPT !.step = "opened", !.holds = file[job.reads].version]
    /\ UNCHANGED <<fileVars, cache, browserVars, socketVars, excused, unanswered>>

\* No page of that name: 404.  No part of that name: its name is shown.
FopenFails ==
    /\ AtStep("find") /\ job.reads \in Files /\ cache[job.reads] = NotCached
    /\ ~Exists(job.reads)
    /\ NextPart(IF job.reads \in Pages THEN 404 ELSE job.code)
    /\ UNCHANGED <<fileVars, cache, browserVars, socketVars, excused, unanswered>>

\* stat of a file that is gone leaves file_stat as it was on the stack.
Stat(f) == IF Exists(f) THEN {file[f].mtime} ELSE Times

Unset(f) == IF Exists(f) THEN {} ELSE {f}

\* The constructors of WebPage and WebPart.
Construct ==
    /\ AtStep("opened")
    /\ \E t \in Stat(job.reads) :
          cache' = [cache EXCEPT ![job.reads] = [content |-> job.holds, last_modified |-> t]]
    /\ excused' = excused \cup Unset(job.reads)
    /\ IF job.reads \in Pages
       THEN job' = [job EXCEPT !.step = "stat", !.holds = 0]
       ELSE NextPart(job.code)
    /\ UNCHANGED <<fileVars, browserVars, socketVars, unanswered>>

\* WebPage::process and WebPart::read_file of a file in memory.
StatChanged ==
    /\ AtStep("stat")
    /\ \E t \in Stat(job.reads) :
          /\ t # cache[job.reads].last_modified
          /\ cache' = [cache EXCEPT ![job.reads] =
                          [content |-> NoContent, last_modified |-> t]]
    /\ excused' = excused \cup Unset(job.reads)
    /\ ToStep("reload")
    /\ UNCHANGED <<fileVars, browserVars, socketVars, unanswered>>

\* A part without content is shown by its name.
StatSame ==
    /\ AtStep("stat")
    /\ \E t \in Stat(job.reads) : t = cache[job.reads].last_modified
    /\ excused' = excused \cup Unset(job.reads)
    /\ IF job.reads \in Pages /\ cache[job.reads].content = NoContent
       THEN ToStep("null")
       ELSE NextPart(job.code)
    /\ UNCHANGED <<fileVars, cache, browserVars, socketVars, unanswered>>

SlipKeepOld(f) == cache[f]

Reloaded(f) == [cache[f] EXCEPT !.content = file[f].version]

Reload ==
    /\ AtStep("reload")
    /\ Exists(job.reads)
    /\ cache' = [cache EXCEPT ![job.reads] = Reloaded(job.reads)]
    /\ excused' = excused \ {job.reads}
    /\ NextPart(job.code)
    /\ UNCHANGED <<fileVars, browserVars, socketVars, unanswered>>

\* A part is then shown by its name, a page that was opened just now not found.
ReloadFails ==
    /\ AtStep("reload")
    /\ ~Exists(job.reads)
    /\ \/ job.reads \in Parts /\ NextPart(job.code)
       \/ job.reads \in Pages /\ job.from = "disk" /\ NextPart(404)
    /\ UNCHANGED <<fileVars, cache, browserVars, socketVars, excused, unanswered>>

SlipKeepAlive(b) == close_pending

close_when_written(b) == close_pending \cup {b}

\* process is false for a page that was found in memory: there is no response, and
\* nothing that could be written.
NoResponse ==
    /\ AtStep("reload")
    /\ ~Exists(job.reads)
    /\ job.reads \in Pages /\ job.from = "memory"
    /\ close_pending' = close_when_written(job.browser)
    /\ unanswered' = unanswered \cup {job.browser}
    /\ job' = IdleJob
    /\ UNCHANGED <<fileVars, cache, browserVars, read_buffer, write_buffer_len, sockets,
                   deleting, excused>>

\* html_file is read where it points to nothing: the process ends, and
\* run_b1ee_server starts it again.
NullPage ==
    /\ AtStep("null")
    /\ cache' = [f \in Files |-> NotCached]
    /\ excused' = {} /\ unanswered' = {}
    /\ connection' = [b \in Browsers |-> "none"]
    /\ inbox' = [b \in Browsers |-> 0] /\ read_buffer' = [b \in Browsers |-> 0]
    /\ write_buffer_len' = [b \in Browsers |-> 0]
    /\ close_pending' = {} /\ sockets' = {} /\ deleting' = {}
    /\ job' = IdleJob
    /\ received' = [b \in Browsers |-> 0]
    /\ UNCHANGED fileVars

end_response ==
    /\ AtStep("respond")
    /\ write_buffer_len' = [write_buffer_len EXCEPT ![job.browser] = @ + ResponseLen]
    /\ close_pending' = close_when_written(job.browser)
    /\ job' = IdleJob
    /\ UNCHANGED <<fileVars, cache, browserVars, read_buffer, sockets, deleting, excused,
                   unanswered>>

process ==
    \/ FindCallback \/ FindCached \/ Fopen \/ FopenFails
    \/ Construct \/ StatChanged \/ StatSame \/ Reload \/ ReloadFails
    \/ NoResponse \/ NullPage \/ end_response

server ==
    \/ process
    \/ \E b \in Browsers : on_web_connection(b) \/ on_readable(b) \/ ReadEnd(b)
                              \/ on_writable(b) \/ Sweep(b)
-----------------------------------------------------------------------------
Init ==
    /\ file \in [Files -> {[version |-> 0, mtime |-> 0], [version |-> 1, mtime |-> 0]}]
    /\ now = 0 /\ edits = 1
    /\ cache = [f \in Files |-> NotCached]
    /\ connection = [b \in Browsers |-> "none"]
    /\ inbox = [b \in Browsers |-> 0]
    /\ read_buffer = [b \in Browsers |-> 0]
    /\ write_buffer_len = [b \in Browsers |-> 0]
    /\ received = [b \in Browsers |-> 0]
    /\ close_pending = {} /\ sockets = {} /\ deleting = {}
    /\ job = IdleJob
    /\ excused = {} /\ unanswered = {}

Next == edit \/ browser \/ server

Spec == Init /\ [][Next]_vars

\* The main thread goes on with a request, and poll passes every socket.
Fairness ==
    /\ WF_vars(process)
    /\ \A b \in Browsers : WF_vars(on_writable(b)) /\ WF_vars(Sweep(b))

FairSpec == Spec /\ Fairness
-----------------------------------------------------------------------------
(* Properties.                                                             *)

Steps == {"find", "opened", "stat", "reload", "null", "respond"}

\* Every variable has its type.
TypeOK ==
    /\ file \in [Files -> [version : 0 .. MaxEdits, mtime : Times]]
    /\ now \in Times /\ edits \in 0 .. MaxEdits
    /\ cache \in [Files -> [content : 0 .. MaxEdits, last_modified : Times] \cup {NotCached}]
    /\ connection \in [Browsers -> {"none", "connecting", "open", "closed"}]
    /\ \A b \in Browsers : inbox[b] \in 0 .. 2 /\ read_buffer[b] \in 0 .. 2
    /\ \A b \in Browsers : write_buffer_len[b] + received[b] \in 0 .. ResponseLen
    /\ close_pending \cup deleting \subseteq sockets /\ sockets \subseteq Browsers
    /\ ~Idle => job.browser \in sockets /\ job.step \in Steps
    /\ excused \subseteq Files /\ unanswered \subseteq Browsers

\* A page or part in memory is what the file is now, or else the file's time will
\* show that it is not; but for files that got the time they had, were replaced
\* while they were first read, or were gone when their time was asked for.
StaleIsNoticed ==
    \A f \in Files \ excused :
        cache[f] # NotCached /\ Exists(f) /\ ~(AtStep("reload") /\ job.reads = f) =>
            \/ cache[f].content = file[f].version
            \/ cache[f].last_modified # file[f].mtime

\* Only after such a change is a page used whose text could not be read again.
NullPageWasUnnoticed == AtStep("null") => job.reads \in excused

\* The server ends a connection that its browser keeps open only when the whole
\* response has been sent.
WholeResponses ==
    [][\A b \in Browsers :
          b \in sockets \ sockets' /\ connection[b] = "open" /\ ~AtStep("null")
              => received[b] = ResponseLen]_vars

\* Every request comes to its end, and the connection with it, but where a page
\* could not be read again.
RequestsEnd ==
    \A b \in Browsers :
        b \in sockets /\ read_buffer[b] = 2 ~> b \notin sockets \/ b \in unanswered
=============================================================================
