----------------------------- MODULE MCBulkMail -----------------------------
(* One list that fits into one job. That longer lists are split without loss   *)
(* is proved (BulkMailProofs!ListsAreSplit); the worker takes one job a time.  *)
EXTENDS BulkMail

CONSTANTS a, b

Addresses == {a, b}
OneList == {<<a, b>>}

=============================================================================
