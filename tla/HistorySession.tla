---------------------------- MODULE HistorySession ----------------------------
(***************************************************************************)
(* internal/responsehistory/session.go and its twin in                     *)
(* internal/httpapi/openai/chat/chat_history.go: the record a request      *)
(* keeps of itself in the chat history.  The store may be switched off,    *)
(* or lose the entry, at any moment; that a write fails is ChatHistory's.  *)
(***************************************************************************)
EXTENDS Naturals, Sequences

\* An entry and its session: is the store on, is the entry in it, has the session given
\* up, and the status written last.
NoSession == [on |-> TRUE, present |-> FALSE, disabled |-> TRUE, status |-> "none"]

\* Start
HistoryStart(h) ==
  IF h.on THEN [h EXCEPT !.present = TRUE, !.disabled = FALSE, !.status = "streaming"]
  ELSE h

\* Mutant: a missing entry is a failed write like any other.
PersistUpdateMissing(h, status) ==
  CASE h.disabled \/ (h.on /\ ~h.present) -> h
    [] ~h.disabled /\ ~h.on -> [h EXCEPT !.disabled = TRUE]
    [] OTHER -> [h EXCEPT !.status = status]

\* retryMissingEntry: a missing entry is created again.
RetryMissingEntry(h) == [h EXCEPT !.present = TRUE]

\* handlePersistError: a store that is off ends the session.
HandlePersistError(h, status) == IF ~h.on THEN [h EXCEPT !.disabled = TRUE] ELSE [RetryMissingEntry(h) EXCEPT !.status = status]

\* persistUpdate
PersistUpdate(h, status) ==
  CASE h.disabled -> h
    [] ~h.disabled /\ h.on /\ h.present -> [h EXCEPT !.status = status]
    [] OTHER -> HandlePersistError(h, status)

\* Progress writes at most once in a while: whether it is due is left open.
HistoryProgress(h) == {h, PersistUpdate(h, "streaming")}
HistorySuccess(h) == PersistUpdate(h, "success")
HistoryError(h) == PersistUpdate(h, "error")
HistoryStopped(h) == PersistUpdate(h, "stopped")

\* SuccessTurn and ErrorTurn: how the request ended, if it has.
HistoryEnd(h, status) ==
  CASE status = "success" -> HistorySuccess(h)
    [] status = "error" -> HistoryError(h)
    [] OTHER -> h

\* Discard: the request leaves no entry (Delete of a store that is off does nothing).
HistoryDiscard(h) == IF h.disabled \/ ~h.on THEN h ELSE [h EXCEPT !.present = FALSE]
=============================================================================
