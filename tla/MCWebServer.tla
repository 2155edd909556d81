----------------------------- MODULE MCWebServer -----------------------------
(***************************************************************************)
(* Instances of WebServer for TLC.                                         *)
(***************************************************************************)
EXTENDS WebServer, TLC

CONSTANTS c1, c2

Line(method, path, good) == First(RequestLine(method, path, good))
Text(line, fields, body) == <<line>> \o fields \o <<CR, LF>> \o body
Post(path, fields, body) == Text(Line("POST", path, TRUE), fields, body)

World(first, second, fickle) == [request |-> c1 :> first @@ c2 :> second, fickle |-> fickle]

(* An installation with a body of three lines, and a client that asks for   *)
(* 100 Continue, both of them patient; the second one fickle with a reboot;  *)
(* /exit from a client that leaves out the last LF of its header; requests  *)
(* that are refused; a length that is no number; a header that never ends.  *)
MCWorlds ==
  {World(Post("/os", <<Field("AutoReboot", "yes"), Field("Content-Length", 5)>>,
              <<X, LF, X, LF, X>>),
         Post("/bootPartition",
              <<Field("Expect", "100-continue"), NoColon, Field("Content-Length", 1)>>,
              <<X>>),
         {}),
   World(<<Line("POST", "/exit", TRUE), CR>>, Post("/reboot", <<>>, <<X>>), {c2}),
   World(Text(Line("GET", "/os", TRUE), <<>>, <<>>),
         Text(Line("POST", "/os", FALSE), <<>>, <<>>), {}),
   World(Post("/os", <<Field("Content-Length", Junk)>>, <<X>>),
         Post("/bootPartition", <<Field("Expect", "100-continue")>>, <<X>>), {c2}),
   World(<<Line("POST", "/os", TRUE), NoColon>>, Post("/bootPartition", <<>>, <<>>), {})}
=============================================================================
