----------------------------- MODULE MCReadData -----------------------------
(***************************************************************************)
(* Pages of one to four words, a page again, a feature and status reads in *)
(* the orders of the firmware: a status before and after a page, pages one *)
(* after another.                                                          *)
(***************************************************************************)
EXTENDS ReadData

CONSTANTS p, q, f, ok, busy

Of(o, w) == <<[op |-> o, words |-> w]>>
Pages == {<<p>>, <<p, q>>, <<p, q, q, p>>}

ReadOrders ==
  {Of("ReadStatus", <<s>>) \o Of("ReadPage", a) \o Of("ReadStatus", <<ok>>) \o Of("ReadPage", b) :
     a, b \in Pages, s \in {ok, busy}} \cup
  {Of("ReadPage", a) \o Of("GetFeature", <<f, f, f, q>>) \o Of("ReadStatus", <<ok>>) \o Of("ReadPage", <<q>>) :
     a \in Pages}
=============================================================================
