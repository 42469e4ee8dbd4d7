------------------------------ MODULE MCFanOut ------------------------------
(* A malware index, registry metadata whose facts only the store carries    *)
(* over, an archive analyzer, and the publisher diff of the third tier.     *)
EXTENDS FanOut, TLC

CONSTANTS malware, registry, analyzer, publisher, whole, huge

MCStage ==
    (malware :> 1) @@ (registry :> 1) @@ (analyzer :> 1) @@ (publisher :> 2)

MCOutcomes ==
    (malware :> {"clear", "flag"}) @@ (registry :> {"clear"})
        @@ (analyzer :> {"clear", "flag"}) @@ (publisher :> {"clear", "flag"})

MCContent == (whole :> "flag") @@ (huge :> "flag")

Bytes == [signals |-> {malware, analyzer}, ephemeral |-> FALSE, digest |-> whole]
Huge == [Bytes EXCEPT !.digest = huge]
Upload == [Bytes EXCEPT !.ephemeral = TRUE]
Watch == [Bytes EXCEPT !.signals = {malware, registry}, !.digest = None]
Refresh == [Watch EXCEPT !.signals = {malware, publisher}]

MCRequests == {Bytes, Huge, Upload, Watch, Refresh}

MCMixes ==
    {<<Bytes, Bytes>>, <<Huge, Watch>>, <<Upload, Bytes>>, <<Watch, Refresh>>,
     <<Refresh, Refresh>>}

MCStored ==
    {(malware :> "flag") @@ (registry :> "clear") @@ (analyzer :> "silent")
        @@ (publisher :> "bare")}
=============================================================================
