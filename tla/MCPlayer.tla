-------------------------------- MODULE MCPlayer --------------------------------
(* Logs and start options for checking Player. *)
EXTENDS Player

(* A record that goes round the ring, one that has to wait for room in it, a
   second time stamp, and a second file that begins with a known one. *)
TwoFiles ==
  << <<TstampRecord(1), DataRecord(2), DataRecord(2)>>,
     <<TstampRecord(1), DataRecord(1), TstampRecord(2), DataRecord(1)>> >>

(* rdr -A, rdr -a, and rdr -q started by a command or by the connection. *)
SomeOptions == [autostart : {TRUE}, regulate : BOOLEAN, autoquit : {FALSE}]
                 \union [autostart : {FALSE}, regulate : BOOLEAN, autoquit : {TRUE}]
Regulated == [autostart : {TRUE}, regulate : {TRUE}, autoquit : BOOLEAN]
=============================================================================
