---------------------------- MODULE MCDownloadJob ----------------------------
(* Instances of DownloadJob: three chapters, two sources, two lanes.         *)
EXTENDS DownloadJob, TLC

CONSTANTS a, b

MCGiven == <<1, 2, 3>>
MCKey == (a :> "first") @@ (b :> "second")
MCListing == (1 :> <<a, b>>) @@ (2 :> <<b, a>>) @@ (3 :> <<a, b>>)
\* A Fetch spread over the servers, and one that is not.
MCSpread == (1 :> <<a>>) @@ (2 :> <<b>>) @@ (3 :> <<a, b>>)
MCOwn == (1 :> <<a>>) @@ (2 :> <<b>>) @@ (3 :> <<a>>)
MCRotas == {MCSpread, MCOwn}
=============================================================================
