-------------------------------- MODULE MCServer --------------------------------
(* Instances of Server for TLC.                                            *)
EXTENDS Server, TLC

CONSTANTS t1, t2, m1, m2

TwoThreads == {t1, t2}
TwoModels == {m1, m2}
OnlyM1 == {m1}

(* Every kind of request for either model; keep_alive and stream vary only *)
(* where the handlers read them.                                           *)
MixedRequests ==
  [kind : {"generate"}, model : Models, keep : {"default", "now"}, stream : {TRUE}]
    \cup [kind : {"embed"}, model : Models, keep : {"default"}, stream : {FALSE}]
    \cup [kind : {"empty"}, model : {m1}, keep : {"now", "forever"}, stream : {FALSE}]
    \cup [kind : {"delete", "pull"}, model : {m1}, keep : {"default"}, stream : {FALSE}]

(* Only requests that leave keep_alive to the server.                      *)
DefaultRequests ==
  [kind : {"generate"}, model : Models, keep : {"default"}, stream : {TRUE}]
================================================================================
