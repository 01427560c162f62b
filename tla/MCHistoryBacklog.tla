--------------------------- MODULE MCHistoryBacklog ---------------------------
(* Instances of HistoryBacklog for TLC. *)
EXTENDS HistoryBacklog

(* Two entries of one hour, two of the next. *)
TwoHours == <<1, 1, 2, 2>>
===============================================================================
