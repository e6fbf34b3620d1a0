------------------------------- MODULE MCShared -------------------------------
(* The app alone, and the app beside the command line.                       *)
EXTENDS SharedProperties

MCApp == {"app"}
MCBoth == {"app", "cli"}
MCEither == {"socket", "download"}
MCSocket == {"socket"}
MCDownload == {"download"}
MCRequests == {"status", "cancel", "listen", "transcribe"}
=============================================================================
