---------------------------- MODULE ExcelExport ----------------------------
(***************************************************************************)
(* The spreadsheets of the six export handlers.  Each queries a page of its *)
(* table, writes it to a temporary file and sends the file; when the        *)
(* response has ended, ExcelFileCleanupInterceptor deletes the file.  All   *)
(* of them pass the prefix 'target', so every export of a day uses one      *)
(* file: XLSX.writeFile truncates it where it is, a stream that has opened  *)
(* it reads what is in it then, and unlink leaves what is open readable.    *)
(*                                                                         *)
(* Writing is one step, for it is synchronous; the stream opens the file    *)
(* later, on its own.  A file is read in one piece.                        *)
(***************************************************************************)
EXTENDS Integers, FiniteSets

CONSTANTS
  Exports,    \* slots for the exports being processed
  LastDay,    \* bound: days that pass
  NoFile      \* no file, no data

ASSUME LastDayAssumption == LastDay \in Nat
ASSUME NoFileAssumption  == NoFile \notin Exports

Days == 0..LastDay

VARIABLES
  today,
  file,       \* whose data the file of each day holds
  exp,        \* the export in each slot
  leftover    \* history: days whose file was there when the process ended

excelVars == <<today, file, exp, leftover>>

ExportSlot ==
  [pc     : {"idle", "query", "open", "read", "unlink"},
   day    : Days,                     \* the day in the name of the file
   linked : BOOLEAN,                  \* is the open file still the one of that name?
   src    : Exports \cup {NoFile},    \* whose data the open file holds
   sent   : Exports \cup {NoFile},    \* whose data was sent
   cut    : BOOLEAN,                  \* did the client go away?
   over   : BOOLEAN,                  \* history: has another export written the file
   lost   : BOOLEAN]                  \* ... or deleted it, since this one wrote it?

NoExport == [pc |-> "idle", day |-> 0, linked |-> FALSE, src |-> NoFile,
             sent |-> NoFile, cut |-> FALSE, over |-> FALSE, lost |-> FALSE]

ExcelInit ==
  /\ today    = 0
  /\ file     = [d \in Days |-> NoFile]
  /\ exp      = [e \in Exports |-> NoExport]
  /\ leftover = {}

(* The exports that have written the file of day d and not yet deleted it. *)
Busy(e, d) == exp[e].pc \in {"open", "read", "unlink"} /\ exp[e].day = d

----------------------------------------------------------------------------
ExportRequest(e) ==
  /\ exp[e].pc = "idle"
  /\ exp' = [exp EXCEPT ![e].pc = "query"]
  /\ UNCHANGED <<today, file, leftover>>

(* Variant: the tap does not wait for the response to end. *)
WriteAndUnlink(e) ==
  /\ exp[e].pc = "query"
  /\ file' = [file EXCEPT ![today] = NoFile]
  /\ exp' = [x \in Exports |->
       IF x = e THEN [NoExport EXCEPT !.pc = "open", !.day = today] ELSE exp[x]]
  /\ UNCHANGED <<today, leftover>>

(* createExcelFile: the name, XLSX.writeFile, createReadStream. *)
WriteFile(e) ==
  /\ exp[e].pc = "query"
  /\ file' = [file EXCEPT ![today] = e]
  /\ exp' = [x \in Exports |->
       IF x = e THEN [NoExport EXCEPT !.pc = "open", !.day = today]
       ELSE IF Busy(x, today)
       THEN [exp[x] EXCEPT !.over = TRUE, !.src = IF exp[x].linked THEN e ELSE @]
       ELSE exp[x]]
  /\ UNCHANGED <<today, leftover>>

(* The stream opens the file, or finds none and the response is an error. *)
OpenFile(e) ==
  LET d == exp[e].day IN
  /\ exp[e].pc = "open"
  /\ \/ /\ file[d] # NoFile
        /\ exp' = [exp EXCEPT ![e].pc = "read", ![e].linked = TRUE, ![e].src = file[d]]
     \/ /\ file[d] = NoFile
        /\ exp' = [exp EXCEPT ![e].pc = "unlink"]
  /\ UNCHANGED <<today, file, leftover>>

ReadFile(e) ==
  /\ exp[e].pc = "read"
  /\ exp' = [exp EXCEPT ![e].pc = "unlink", ![e].sent = exp[e].src, ![e].linked = FALSE]
  /\ UNCHANGED <<today, file, leftover>>

(* The connection closes before the file is sent. *)
ClientGone(e) ==
  /\ exp[e].pc \in {"open", "read"}
  /\ exp' = [exp EXCEPT ![e].pc = "unlink", ![e].cut = TRUE, ![e].linked = FALSE]
  /\ UNCHANGED <<today, file, leftover>>

(* What deleting the file of day d does to the exports other than e. *)
Deleted(e, d) ==
  [x \in Exports |->
     IF x = e THEN NoExport
     ELSE IF Busy(x, d) THEN [exp[x] EXCEPT !.lost = TRUE, !.linked = FALSE]
     ELSE exp[x]]

(* Variant: a file that was not sent is kept. *)
KeepUnsent(e) ==
  /\ exp[e].pc = "unlink"
  /\ file' = IF exp[e].cut THEN file ELSE [file EXCEPT ![exp[e].day] = NoFile]
  /\ leftover' = leftover \ {exp[e].day}
  /\ exp' = Deleted(e, exp[e].day)
  /\ UNCHANGED today

(* The handler returns the reply, which Nest awaits: the tap of the          *)
(* interceptor runs when the response has ended.  An error of unlinkSync is *)
(* logged.                                                                 *)
Unlink(e) ==
  /\ exp[e].pc = "unlink"
  /\ file' = [file EXCEPT ![exp[e].day] = NoFile]
  /\ leftover' = leftover \ {exp[e].day}
  /\ exp' = Deleted(e, exp[e].day)
  /\ UNCHANGED today

(* The query rejects. *)
QueryFails(e) ==
  /\ exp[e].pc = "query"
  /\ exp' = [exp EXCEPT ![e] = NoExport]
  /\ UNCHANGED <<today, file, leftover>>

(* The process is restarted; the files stay. *)
ProcessEnds ==
  /\ \E e \in Exports : exp[e].pc # "idle"
  /\ exp' = [e \in Exports |-> NoExport]
  /\ leftover' = {d \in Days : file[d] # NoFile}
  /\ UNCHANGED <<today, file>>

NextDay ==
  /\ today < LastDay
  /\ today' = today + 1
  /\ UNCHANGED <<file, exp, leftover>>

ExportStep(e) == WriteFile(e) \/ OpenFile(e) \/ ReadFile(e) \/ Unlink(e)

ExcelNext ==
  \/ \E e \in Exports : ExportRequest(e) \/ ExportStep(e) \/ ClientGone(e) \/ QueryFails(e)
  \/ ProcessEnds
  \/ NextDay

ExcelSpec == ExcelInit /\ [][ExcelNext]_excelVars

----------------------------------------------------------------------------
(* Types of the files and of the slots. *)
ExcelTypeOK ==
  /\ today \in Days
  /\ file \in [Days -> Exports \cup {NoFile}]
  /\ exp \in [Exports -> ExportSlot]
  /\ leftover \subseteq Days

(* What an export sends are its own rows, unless another export wrote the    *)
(* file of that day since; and it sends an error only if another deleted    *)
(* the file meanwhile.                                                     *)
OwnDataSent ==
  \A e \in Exports :
    exp[e].pc = "unlink" /\ ~exp[e].cut /\ ~exp[e].over =>
      exp[e].sent = e \/ (exp[e].sent = NoFile /\ exp[e].lost)

(* A file is there only while an export that will delete it is under way,    *)
(* or since the process ended in the middle of one: the clean-ups of         *)
(* overlapping exports leave nothing behind (excel.interceptor.ts:25).      *)
NoFileLeft ==
  \A d \in Days : file[d] # NoFile => d \in leftover \/ \E e \in Exports : Busy(e, d)

(* What makes OwnDataSent inductive: before it is opened, and while it is    *)
(* read, the file holds the export's rows unless it was overtaken.          *)
ExcelInv ==
  /\ ExcelTypeOK
  /\ OwnDataSent
  /\ NoFileLeft
  /\ \A e \in Exports : ~exp[e].over =>
       /\ exp[e].pc = "open" =>
            /\ file[exp[e].day] = e \/ (file[exp[e].day] = NoFile /\ exp[e].lost)
            /\ exp[e].sent = NoFile
       /\ exp[e].pc = "read" => exp[e].src = e

=============================================================================
