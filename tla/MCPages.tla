------------------------------ MODULE MCPages ------------------------------
(* Small instances of Browser: MaxSaves saves, every entry, every page;       *)
(* MaxTries requests, every field of every form.                              *)
EXTENDS Browser, TLC

CONSTANTS MaxSaves,   \* bound on the saves a person sends from the pages
          MaxTries    \* bound on the requests a person sends from a form
MCSent == 1 .. MaxSaves
MCTries == 1 .. MaxTries
=============================================================================
