------------------------------ MODULE MCJtagUart ------------------------------
EXTENDS JtagUart

CONSTANTS c1, c2

MCChar == {c1, c2}
OneChar == {c1}
NoChar == {}

(* The callers and the host, whom no fairness is asked of, are restricted   *)
(* (bounds of the model).  Characters go one way at a time: no write begins *)
(* and no host sends unless the other direction is empty, at its start.     *)
OneWay ==
  /\ Len(rfifo') > Len(rfifo) => pc \notin Writing /\ wfifo = <<>> /\ tx_in = 0 /\ tx_out = 0
  /\ pc = "idle" /\ pc' = "wSpace" => rfifo = <<>> /\ rx_in = 0 /\ rx_out = 0

(* Of all characters, in a ring's old ones too, one at most differs from    *)
(* the rest: enough to tell any order from any other.                       *)
Characters == src \o wfifo \o rfifo \o dst \o printed
Marks ==
  Cardinality({i \in DOMAIN Characters : Characters[i] = c2})
  + Cardinality({i \in Index : tx_buf[i] = c2}) + Cardinality({i \in Index : rx_buf[i] = c2})
OneMark ==
  /\ Len(rfifo') > Len(rfifo) /\ rfifo'[Len(rfifo')] = c2 => Marks = 0
  /\ pc = "idle" /\ pc' = "wSpace" =>
       LET marked == {i \in DOMAIN src' : src'[i] = c2}
       IN  marked = {} \/ (Marks = 0 /\ Cardinality(marked) = 1)

OneWaySpec ==
  (Init /\ Marks = 0) /\ [][Next /\ OneWay /\ OneMark]_vars /\ Processor /\ HostThere
=============================================================================
