----------------------------- MODULE MCWebClient -----------------------------
(***************************************************************************)
(* Instances of WebClient for TLC.                                         *)
(***************************************************************************)
EXTENDS WebClient

Page(line, fields, body) == <<First(line)>> \o fields \o <<CR, LF>> \o body

(* A resource with and without a length, an error page whose phrase has two *)
(* words, a wrong version, and a length and a code that are no numbers.     *)
Pages ==
  {Page(StatusLine(200, TRUE, TRUE), <<Field("Content-Length", 5)>>, <<X, LF, X, X, LF>>),
   Page(StatusLine(200, TRUE, TRUE), <<NoColon>>, <<X, LF, X>>),
   Page(StatusLine(404, FALSE, TRUE), <<Field("Content-Length", 1)>>, <<X>>),
   Page(StatusLine(200, TRUE, FALSE), <<>>, <<X>>),
   Page(StatusLine(200, TRUE, TRUE), <<Field("Content-Length", Junk)>>, <<X>>),
   Page(StatusLine(Junk, TRUE, TRUE), <<>>, <<X>>)}
=============================================================================
