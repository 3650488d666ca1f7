---------------------------- MODULE MCChannelScan ----------------------------
(* Two countries' feeds of one channel, and a copy without a prefix, scanned
   two at a time by scans that overlap. *)
EXTENDS ChannelScan, TLC

N(country, tag) == [key |-> "espn", country |-> country, tag |-> tag]

MCName == <<N("au", NoTag), N(NoCountry, "hd"), N("us", NoTag)>>

MCLabel == [h \in {480, 1080} |-> IF h = 480 THEN "480p" ELSE "1080p"]
=============================================================================
