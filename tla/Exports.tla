------------------------------- MODULE Exports ------------------------------
(***************************************************************************)
(* Two pages that export what they list, each a machine of its own: the    *)
(* archive of closed rounds and the activity of a wallet.                  *)
(***************************************************************************)
EXTENDS Sequences, FiniteSets, Integers, Functions

(***************************************************************************)
(* The archive of closed rounds: the records, the order and the document   *)
(* of lib/archive-export.ts, and the page of app/vaults/archive that       *)
(* filters them, shows them a page at a time and exports them. A date is a *)
(* number of days, 0 for a filter that is not set.                         *)
(***************************************************************************)
CONSTANTS
  ClosedRounds,    \* the rounds that may be in the archive: id, ended, network,
                   \* winnerCount, winners
  PageSize,        \* PAGE_SIZE
  FilterDates      \* the dates a visitor chooses

ASSUME ArchiveAssumption ==
  /\ PageSize \in Nat \ {0} /\ FilterDates \subseteq Nat
  /\ IsFiniteSet(ClosedRounds)
  /\ \A r \in ClosedRounds : r.id \in Nat /\ r.ended \in Nat
  /\ \A r, q \in ClosedRounds : r.id = q.id => r = q

Unset == 0
AnyNetwork == "all"

VARIABLES
  archive,         \* VAULT_ROUND_ARCHIVE: the rounds in the order of the source
  visibleCount, fromDate, toDate, networkFilter,
  exported         \* the records of the last export, or <<>>

archiveVars == <<archive, visibleCount, fromDate, toDate, networkFilter, exported>>

ArchiveInit ==
  /\ \E R \in SUBSET ClosedRounds :
       archive \in {s \in [1 .. Cardinality(R) -> R] : \A i, j \in DOMAIN s : s[i] = s[j] => i = j}
  /\ visibleCount = PageSize /\ fromDate = Unset /\ toDate = Unset /\ networkFilter = AnyNetwork
  /\ exported = <<>>

-----------------------------------------------------------------------------

\* Array.prototype.sort is stable: elements that neither come before the other
\* keep their order.
Precedes(s, i, j, Before(_, _)) == Before(s[i], s[j]) \/ (~Before(s[j], s[i]) /\ i < j)

Sorted(s, Before(_, _)) ==
  LET order == CHOOSE p \in Bijection(DOMAIN s, DOMAIN s) :
                 \A i, j \in DOMAIN s : i < j => Precedes(s, p[i], p[j], Before)
  IN [k \in DOMAIN s |-> s[order[k]]]

\* completedRounds: by date only; rounds of one day keep the source's order.
Later(a, b) == a.ended > b.ended

completedRounds(rounds) == Sorted(rounds, Later)

\* An absent count, here 0, is the number of the winners listed.
normalizeArchiveRecord(round) ==
  [id |-> round.id, ended |-> round.ended, network |-> round.network,
   winnerCount |-> IF round.winnerCount = 0 THEN Len(round.winners) ELSE round.winnerCount]

\* endDate descending, then id ascending
NewerFirst(a, b) == a.ended > b.ended \/ (a.ended = b.ended /\ a.id < b.id)

\* The records of createArchiveExport; the proof hash is taken over them.
createArchiveExport(rounds) ==
  Sorted([i \in DOMAIN rounds |-> normalizeArchiveRecord(rounds[i])], NewerFirst)

\* filterArchiveRecords: both dates are inclusive.
Within(record) ==
  /\ fromDate = Unset \/ record.ended >= fromDate
  /\ toDate = Unset \/ record.ended <= toDate
  /\ networkFilter \in {AnyNetwork, record.network}

exportedDocument == createArchiveExport(completedRounds(archive))

filteredRecords ==
  LET doc == exportedDocument
      kept[i \in 0 .. Len(doc)] ==
        IF i = 0 THEN <<>> ELSE IF Within(doc[i]) THEN Append(kept[i - 1], doc[i]) ELSE kept[i - 1]
  IN kept[Len(doc)]

visibleRounds ==
  SubSeq(filteredRecords, 1, IF visibleCount < Len(filteredRecords) THEN visibleCount ELSE Len(filteredRecords))

hasMore == visibleCount < Len(filteredRecords)

-----------------------------------------------------------------------------
(* Every filter starts again from the first page.                          *)

SetDates(from, to) ==
  /\ <<from, to>> # <<fromDate, toDate>> /\ (from = fromDate \/ to = toDate)
  /\ fromDate' = from /\ toDate' = to /\ visibleCount' = PageSize
  /\ UNCHANGED <<archive, networkFilter, exported>>

SetNetwork(n) ==
  /\ n # networkFilter /\ networkFilter' = n /\ visibleCount' = PageSize
  /\ UNCHANGED <<archive, fromDate, toDate, exported>>

LoadMore ==
  /\ hasMore /\ visibleCount' = visibleCount + PageSize
  /\ UNCHANGED <<archive, fromDate, toDate, networkFilter, exported>>

\* The whole document, whatever the filters.
handleExport ==
  /\ exported' = exportedDocument
  /\ UNCHANGED <<archive, visibleCount, fromDate, toDate, networkFilter>>

ArchiveNext ==
  \/ LoadMore \/ handleExport
  \/ \E from, to \in FilterDates \cup {Unset} : SetDates(from, to)
  \/ \E n \in {r.network : r \in ClosedRounds} \cup {AnyNetwork} : SetNetwork(n)

ArchiveSpec == ArchiveInit /\ [][ArchiveNext]_archiveVars

-----------------------------------------------------------------------------

\* The exported records, and with them the proof hash, depend on the rounds
\* only and not on the order in which the source lists them
\* (archive-export.ts:150-163, "deterministic").
ExportIsOrderFree ==
  exported # <<>> =>
    \A p \in Bijection(DOMAIN archive, DOMAIN archive) :
      createArchiveExport([i \in DOMAIN archive |-> archive[p[i]]]) = exported

\* What the page shows are the newest of the rounds that match the filters:
\* none that it keeps for a later page ended after one that it shows, and
\* every matching round of the archive is on some page.
ShownAreTheNewest ==
  LET matching == {r \in {archive[i] : i \in DOMAIN archive} :
                     /\ r.ended >= fromDate /\ (toDate # Unset => r.ended <= toDate)
                     /\ networkFilter # AnyNetwork => r.network = networkFilter}
      shown == {visibleRounds[i].id : i \in DOMAIN visibleRounds}
  IN /\ shown \subseteq {r.id : r \in matching}
     /\ (~hasMore => shown = {r.id : r \in matching})
     /\ \A r, q \in matching : r.id \in shown /\ q.id \notin shown => q.ended <= r.ended

(***************************************************************************)
(* The export of a wallet's activity (components/app/                      *)
(* VaultActivityExport.jsx): it walks GET /actions page by page and        *)
(* downloads one file at the end. A wallet's rows are numbered in the      *)
(* order of their creation and listed newest first. The wallet is a prop   *)
(* of the component and may change while an export runs; the export keeps  *)
(* the one it was started with, as its closure does.                       *)
(***************************************************************************)
CONSTANTS
  Exporters,     \* the wallets the page may show
  ExportPage,    \* pageSize
  MaxActivity    \* bound on the rows of all wallets

ASSUME ExportAssumption == Exporters # {} /\ ExportPage \in Nat \ {0} /\ MaxActivity \in Nat

VARIABLES
  activity,      \* number of rows of each wallet
  shownWallet,   \* the wallet prop
  format,
  exportStatus,  \* idle, exporting, success, error or cancelled
  job,           \* the running or last export: its wallet, cursor, lines, the answer under way
  file           \* the file downloaded last: its wallet, format and lines

exportVars == <<activity, shownWallet, format, exportStatus, job, file>>

NoAnswer == <<>>
NoFile == [wallet |-> "none", format |-> "none", lines |-> <<>>]
NoJob(w) == [wallet |-> w, cursor |-> 0, lines |-> <<>>, answer |-> NoAnswer, start |-> 0]

ExportInit ==
  /\ activity = [w \in Exporters |-> 0]
  /\ shownWallet = (CHOOSE w \in Exporters : TRUE) /\ format = "csv"
  /\ exportStatus = "idle" /\ job = NoJob(shownWallet)
  /\ file = NoFile

-----------------------------------------------------------------------------
(* What happens around the component.                                        *)

RecordActivity(w) ==
  /\ FoldFunction(+, 0, activity) < MaxActivity
  /\ activity' = [activity EXCEPT ![w] = @ + 1]
  /\ UNCHANGED <<shownWallet, format, exportStatus, job, file>>

ChangeWallet(w) ==
  /\ w # shownWallet /\ shownWallet' = w
  /\ UNCHANGED <<activity, format, exportStatus, job, file>>

-----------------------------------------------------------------------------

\* The select is disabled during an export.
ChooseFormat(f) ==
  /\ exportStatus # "exporting" /\ f # format
  /\ format' = f /\ exportStatus' = "idle"
  /\ UNCHANGED <<activity, shownWallet, job, file>>

beginExport ==
  /\ exportStatus # "exporting"
  /\ exportStatus' = "exporting"
  /\ job' = [NoJob(shownWallet) EXCEPT !.start = activity[shownWallet]]
  /\ UNCHANGED <<activity, shownWallet, format, file>>

\* listActions: the rows below the cursor, newest first.
RowsBelow(w, cursor) == LET top == IF cursor = 0 THEN activity[w] ELSE cursor - 1 IN
                        [i \in 1 .. top |-> top + 1 - i]

FirstPage(list) == SubSeq(list, 1, IF ExportPage < Len(list) THEN ExportPage ELSE Len(list))

\* The last item of a page that has more below it; 0 stands for null.
nextCursor(list) == IF Len(list) > ExportPage THEN list[ExportPage] ELSE 0

\* The server reads a page: rows created later are not in it.
ServerAnswers ==
  LET list == RowsBelow(job.wallet, job.cursor) IN
  /\ exportStatus = "exporting" /\ job.answer = NoAnswer
  /\ job' = [job EXCEPT !.answer = <<[items |-> FirstPage(list), next |-> nextCursor(list)]>>]
  /\ UNCHANGED <<activity, shownWallet, format, exportStatus, file>>

\* Every row of the page becomes a line of the file.
Appended(lines, items) == lines \o items

\* The answer arrives: the next page is asked for, or the file is downloaded.
PageArrives ==
  LET answer == job.answer[1]
      lines  == Appended(job.lines, answer.items) IN
  /\ exportStatus = "exporting" /\ job.answer # NoAnswer
  /\ job' = [job EXCEPT !.lines = lines, !.cursor = answer.next, !.answer = NoAnswer]
  /\ IF answer.next = 0
     THEN /\ exportStatus' = "success"
          /\ file' = [wallet |-> job.wallet, format |-> format, lines |-> lines]
     ELSE UNCHANGED <<exportStatus, file>>
  /\ UNCHANGED <<activity, shownWallet, format>>

\* A response that is not ok, or none; or the user cancels and the controller
\* rejects the request under way.  Nothing is downloaded.
Abandon(outcome) ==
  /\ exportStatus = "exporting"
  /\ exportStatus' = outcome
  /\ UNCHANGED <<activity, shownWallet, format, job, file>>

cancelExport == Abandon("cancelled")

ExportFails == Abandon("error")

ExportNext ==
  \/ \E w \in Exporters : RecordActivity(w) \/ ChangeWallet(w)
  \/ \E f \in {"csv", "json"} : ChooseFormat(f)
  \/ beginExport \/ ServerAnswers \/ PageArrives \/ cancelExport \/ ExportFails

ExportSpec == ExportInit /\ [][ExportNext]_exportVars

-----------------------------------------------------------------------------

\* Rows 1 .. n of a wallet without a gap or a repetition, newest first.
WholeActivity(lines) == \A i \in DOMAIN lines : lines[i] = Len(lines) + 1 - i

\* A finished export downloaded a file, in the format that is shown, with every
\* row its wallet had when it started, each once and nothing else, although
\* rows are created, pages fail and the shown wallet changes meanwhile.  Any
\* other outcome leaves no file that is cut short.
ExportedIsWhole ==
  /\ WholeActivity(file.lines)
  /\ exportStatus = "success" =>
       file.wallet = job.wallet /\ file.format = format /\ Len(file.lines) >= job.start
=============================================================================
