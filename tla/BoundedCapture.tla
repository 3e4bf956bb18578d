---------------------------- MODULE BoundedCapture ----------------------------
(***************************************************************************)
(* What a rule prints and logs, as the parent of its process gets to see   *)
(* it (automation/executor.py).                                            *)
(*                                                                         *)
(* The child writes both into files of limited length, so that they can be *)
(* read when it had to be killed; os.write may write a part only, and may  *)
(* fail.  What does not fit is replaced by a marker.  The result goes      *)
(* through a pipe whose messages are limited too.  The two files have no   *)
(* state in common: this is one of them.  A script has one thread (it can  *)
(* import none).                                                           *)
(*                                                                         *)
(* A byte of the file is the number that it has in all that was printed,   *)
(* or 0 if it belongs to the marker.                                       *)
(***************************************************************************)
EXTENDS Naturals, Sequences

CONSTANTS
  CpLimit,    \* _MAX_OUTPUT_CHARS, _MAX_LOG_SIDECAR_BYTES
  CpMarker,   \* the length of _TRUNCATED_MARKER
  CpWidth,    \* the bytes of a character
  CpRecords,  \* _MAX_LOG_RECORDS
  CpMaxText,  \* bounds on one print, in characters, and on their number
  CpMaxWrites,
  CpLengths   \* the lengths of exception messages and tracebacks

ASSUME CaptureAssumption ==
  /\ CpLimit \in Nat \ {0} /\ CpMarker \in Nat \ {0} /\ CpWidth \in Nat \ {0}
  /\ CpRecords \in Nat /\ CpMaxText \in Nat /\ CpMaxWrites \in Nat
  /\ CpLengths \subseteq Nat

VARIABLES
  cpChannel,  \* what the file is for: output or log records
  cpPrinted,  \* the number of bytes that were printed
  cpLines,    \* where each record ends
  cpFile,
  cpWriter,   \* the step of the writer; how much of the text it keeps, how much of
              \* this is left to write and from where, whether the rest is lost;
              \* _remaining, _truncated, _disabled
  cpWrites,
  cpReport,   \* the final message of the child
  cpResult    \* what the parent has read

cpVars == <<cpChannel, cpPrinted, cpLines, cpFile, cpWriter, cpWrites, cpReport, cpResult>>

CpUnread == [read |-> FALSE, final |-> FALSE, bytes |-> <<>>]

CpTypeOK ==
  /\ cpChannel \in {"output", "log"}
  /\ cpPrinted \in Nat /\ cpLines \in Seq(Nat) /\ cpFile \in Seq(Nat)
  /\ cpWriter \in [step : {"idle", "text", "mark", "dead"}, from : Nat, kept : Nat,
                   left : Nat, lost : BOOLEAN, remaining : 0 .. CpLimit, truncated : BOOLEAN, disabled : BOOLEAN]
  /\ cpWrites \in 0 .. CpMaxWrites
  /\ cpReport \in {"none", "ok", "error", "too large"}
  /\ cpResult \in [read : BOOLEAN, final : BOOLEAN, bytes : Seq(Nat)]

CpInit ==
  /\ cpChannel \in {"output", "log"}
  /\ cpPrinted = 0 /\ cpLines = <<>> /\ cpFile = <<>>
  /\ cpWriter = [step |-> "idle", from |-> 0, kept |-> 0, left |-> 0, lost |-> FALSE,
                 remaining |-> CpLimit, truncated |-> FALSE, disabled |-> FALSE]
  /\ cpWrites = 0 /\ cpReport = "none" /\ cpResult = CpUnread

-----------------------------------------------------------------------------
(* The child.                                                              *)

CpLess(a, b) == IF a < b THEN a ELSE b

\* The writer goes on to the marker when its text is lost in part.
CpThen(w) ==
  IF w.left > 0 THEN w
  ELSE IF w.step = "mark" THEN [w EXCEPT !.step = "idle", !.truncated = TRUE]
  ELSE [w EXCEPT !.remaining = @ - w.kept, !.step = IF w.lost THEN "mark" ELSE "idle",
                 !.left = IF w.lost THEN CpMarker ELSE 0]

\* Mutant: a failure does not close the channel.
CpOpenAlways == ~cpWriter.truncated

CpOpen == ~cpWriter.disabled /\ ~cpWriter.truncated

\* Mutant: only characters are compared.
CpLostChars(chars, candidate, data, kept) == chars > candidate

CpLost(chars, candidate, data, kept) == chars > candidate \/ data > kept

\* The text has that many characters; its first ones, at most as many as there
\* are bytes left, have data bytes, and the others have rest.
CpWrite(chars, data, rest) ==
  LET remaining == cpWriter.remaining
      candidate == CpLess(chars, remaining)
      kept      == CpLess(data, remaining)
  IN
  /\ cpWriter.step = "idle" /\ cpWrites < CpMaxWrites
  /\ data \in candidate .. candidate * CpWidth
  /\ rest \in chars - candidate .. (chars - candidate) * CpWidth
  /\ cpPrinted' = cpPrinted + data + rest /\ cpWrites' = cpWrites + 1
  /\ cpWriter' = IF ~CpOpen THEN cpWriter
                 ELSE CpThen([cpWriter EXCEPT
                        !.step = "text", !.from = cpPrinted, !.kept = kept, !.left = kept,
                        !.lost = CpLost(chars, candidate, data, kept)])
  /\ UNCHANGED <<cpChannel, cpFile, cpReport, cpResult>>

CpPrint ==
  /\ cpChannel = "output" /\ UNCHANGED cpLines
  /\ \E chars \in 0 .. CpMaxText :
       \E data, rest \in 0 .. chars * CpWidth : CpWrite(chars, data, rest)

\* A record is a line of ASCII characters; those beyond the limit are dropped.
CpEmit ==
  /\ cpChannel = "log" /\ Len(cpLines) < CpRecords
  /\ \E chars \in 2 .. CpMaxText :
       LET data == CpLess(chars, cpWriter.remaining) IN
       /\ CpWrite(chars, data, chars - data)
       /\ cpLines' = Append(cpLines, cpPrinted + chars)

\* os.write writes n bytes, or fails.
CpWriteText ==
  /\ cpWriter.step = "text"
  /\ \E n \in 1 .. cpWriter.left :
       /\ cpFile' = cpFile \o [i \in 1 .. n |-> cpWriter.from + i]
       /\ cpWriter' = CpThen([cpWriter EXCEPT !.from = @ + n, !.left = @ - n])
  /\ UNCHANGED <<cpChannel, cpPrinted, cpLines, cpWrites, cpReport, cpResult>>

CpWriteMarker ==
  /\ cpWriter.step = "mark"
  /\ \E n \in 1 .. cpWriter.left :
       /\ cpFile' = cpFile \o [i \in 1 .. n |-> 0]
       /\ cpWriter' = CpThen([cpWriter EXCEPT !.left = @ - n])
  /\ UNCHANGED <<cpChannel, cpPrinted, cpLines, cpWrites, cpReport, cpResult>>

CpWriteFails ==
  /\ cpWriter.step \in {"text", "mark"}
  /\ cpWriter' = [cpWriter EXCEPT !.step = "idle", !.left = 0, !.disabled = TRUE]
  /\ UNCHANGED <<cpChannel, cpPrinted, cpLines, cpFile, cpWrites, cpReport, cpResult>>

-----------------------------------------------------------------------------
(* The final message: a character has up to 12 bytes in JSON.              *)

CpMessageLimit == 8 * 1024
CpTracebackLimit == 32 * 1024
CpTypeLimit == 500
CpResultLimit == 512 * 1024
CpEscape == 12
CpFrame == 100

CpErrorSize(message, traceback, bytes) ==
  CpFrame + bytes * (CpTypeLimit + CpLess(message, CpMessageLimit)
                                 + CpLess(traceback, CpTracebackLimit))

CpSend(size) == IF size > CpResultLimit THEN "too large" ELSE "error"

CpSucceed ==
  /\ cpWriter.step = "idle" /\ cpReport = "none"
  /\ cpReport' = "ok" /\ cpWriter' = [cpWriter EXCEPT !.step = "dead"]
  /\ UNCHANGED <<cpChannel, cpPrinted, cpLines, cpFile, cpWrites, cpResult>>

CpRaise ==
  /\ cpWriter.step = "idle" /\ cpReport = "none"
  /\ \E message, traceback \in CpLengths, bytes \in 1 .. CpEscape :
       cpReport' = CpSend(CpErrorSize(message, traceback, bytes))
  /\ cpWriter' = [cpWriter EXCEPT !.step = "dead"]
  /\ UNCHANGED <<cpChannel, cpPrinted, cpLines, cpFile, cpWrites, cpResult>>

\* After the timeout, or because of an error of its own.
CpKilled ==
  /\ cpWriter.step # "dead"
  /\ cpWriter' = [cpWriter EXCEPT !.step = "dead"]
  /\ UNCHANGED <<cpChannel, cpPrinted, cpLines, cpFile, cpWrites, cpReport, cpResult>>

-----------------------------------------------------------------------------
(* The parent.                                                             *)

\* Mutant: the marker is forgotten.
CpReadShort == CpLimit

CpReadLimit == CpLimit + CpMarker + 1

\* Also when the child does not die.
CpRead ==
  /\ cpResult = CpUnread
  /\ cpResult' = [read |-> TRUE, final |-> cpReport # "none",
                  bytes |-> SubSeq(cpFile, 1, CpLess(Len(cpFile), CpReadLimit))]
  /\ UNCHANGED <<cpChannel, cpPrinted, cpLines, cpFile, cpWriter, cpWrites, cpReport>>

\* The marker begins with a newline.
CpNewline(bytes, i) ==
  \/ \E n \in DOMAIN cpLines : bytes[i] = cpLines[n]
  \/ bytes[i] = 0 /\ (i = 1 \/ bytes[i - 1] # 0)

CpBegin(n) == IF n = 1 THEN 0 ELSE cpLines[n - 1]

\* The records that are whole lines of the bytes.  There are not more lines
\* than records and a cut one before the limit of lines.
CpParsed(bytes) ==
  {n \in DOMAIN cpLines :
     LET length == cpLines[n] - CpBegin(n) - 1 IN
     \E i \in 0 .. Len(bytes) :
       /\ i + length <= Len(bytes)
       /\ \A j \in 1 .. length : bytes[i + j] = CpBegin(n) + j
       /\ i = 0 \/ CpNewline(bytes, i)
       /\ i + length = Len(bytes) \/ CpNewline(bytes, i + length + 1)}

CpNext ==
  \/ CpPrint \/ CpEmit \/ CpWriteText \/ CpWriteMarker \/ CpWriteFails
  \/ CpSucceed \/ CpRaise \/ CpKilled \/ CpRead

CpSpec == CpInit /\ [][CpNext]_cpVars

-----------------------------------------------------------------------------
(* What the parent reads begins with what was printed first, without gaps, *)
(* and a marker follows only when something was lost; when the child has   *)
(* sent its final message, whatever it lost is marked, unless it could not *)
(* write (executor.py: _BoundedSidecarWriter, _read_capture_sidecars).     *)
CaptureHonest ==
  cpResult.read =>
    LET bytes == cpResult.bytes IN
    \E kept \in 0 .. CpLimit :
      /\ kept <= Len(bytes) /\ Len(bytes) <= kept + CpMarker /\ kept <= cpPrinted
      /\ \A i \in 1 .. Len(bytes) : bytes[i] = IF i <= kept THEN i ELSE 0
      /\ kept < Len(bytes) => kept < cpPrinted
      /\ cpResult.final /\ ~cpWriter.disabled =>
           kept = cpPrinted \/ Len(bytes) = kept + CpMarker

(* The log records that the parent gets are the first ones, none left out, *)
(* although the file may end anywhere (executor.py: _BoundedLogHandler,    *)
(* _read_capture_sidecars).                                                *)
LogsWhole ==
  cpResult.read =>
    \A n \in CpParsed(cpResult.bytes) : 1 .. n \subseteq CpParsed(cpResult.bytes)

(* The child's report of an exception is never replaced by the notice that *)
(* it is too large (executor.py: _send_child_payload).                     *)
ReportFits == cpReport # "too large"
=============================================================================
