---------------------------- MODULE DownloadInputs ----------------------------
(***************************************************************************)
(* What is asked of Downloads, for one input.                                *)
(***************************************************************************)
EXTENDS Inputs

CONSTANTS Reserved, Unnameable, BadIds, Reading

D == INSTANCE Downloads WITH None <- Absent

\* D!LinkOpensItsFile of a server, a path, a database, a lifetime and a later instant.
LinkOpensItsFile ==
    Is("link") => D!LinkOpensItsFile(input[2], input[3], input[4], input[5], input[6])

\* D!SendsWhatItPromises of a size and a range header.
SendsWhatItPromises == Is("range") => D!SendsWhatItPromises(input[2], input[3])
=============================================================================
