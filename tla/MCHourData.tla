------------------------------ MODULE MCHourData ------------------------------
(* The small instances of the data of an hour. One behaviour is of one of     *)
(* them, and the variables of the others rest in their initial state:         *)
(*   samplers: both one-second samplers over the same archives;               *)
(*   archive: the raw archive of one hour, acquired until it is complete;     *)
(*   reader: the reading of an archive of each venue, row by row.             *)
EXTENDS SamplerAgreement, ArchiveReader

CONSTANTS Hours, Bytes, Garbled, Absent, Tags, Apps, Perishable, MaxRepublish, MaxCrashes

VARIABLES
  part,
  status, attached, digest, file, hidden, served, republished, crashes, rotted,
  kind, hour, bytes, kept, batch, held, moved

samplerVars == <<vars, bookVars>>
archiveVars == <<status, attached, digest, file, hidden, served, republished, crashes, rotted,
                 kind, hour, bytes, kept, batch, held, moved>>

Archive == INSTANCE RawArchive

-----------------------------------------------------------------------------
(* Rows of archives: of one event and of several, that repeat a level, leave   *)
(* out ids, go back, and do not convert.                                    *)
BookRow(type, t, transaction, ids, level) ==
  [type |-> type, received |-> t, time |-> t, transaction |-> transaction, first |-> ids[1],
   final |-> ids[2], prev |-> ids[3], last |-> ids[4], level |-> level, cells |-> level # "garbled"]
TradeRow(i, t, p, q, sound) ==
  [id |-> i, received |-> t, time |-> t, price |-> p, quantity |-> q, cells |-> sound]

MCTradeRows ==
  {TradeRow(1, 2, 3, 1, TRUE), TradeRow(2, 1, 3, 1, TRUE), TradeRow(1, 2, 0, 0, TRUE),
   TradeRow(3, 2, 3, 0, TRUE), TradeRow(4, 2, 0, 0, FALSE)}

MCRows ==
  [okx_futures |->
     {BookRow("snapshot", 1, NoId, <<NoId, 5, NoId, -1>>, "a"),
      BookRow("snapshot", 1, NoId, <<NoId, 5, NoId, 5>>, "b"),
      BookRow("snapshot", 1, NoId, <<NoId, 5, NoId, -1>>, "b"),
      BookRow("update", 2, NoId, <<NoId, 6, NoId, 5>>, "a"),
      BookRow("update", 2, NoId, <<NoId, 6, NoId, 5>>, "b"),
      BookRow("update", 1, NoId, <<NoId, 4, NoId, 3>>, "a"),
      BookRow("update", 3, NoId, <<NoId, 8, NoId, 6>>, "a"),
      BookRow("update", 3, NoId, <<NoId, 8, NoId, -1>>, "a"),
      BookRow("update", 2, NoId, <<NoId, 6, NoId, 5>>, "garbled")},
   binance_futures |->
     {BookRow("snapshot", 1, NoId, <<NoId, NoId, NoId, 5>>, "a"),
      BookRow("snapshot", 1, 1, <<NoId, NoId, NoId, 5>>, "b"),
      BookRow("update", 2, 2, <<6, 7, 5, NoId>>, "a"),
      BookRow("update", 2, 3, <<6, 7, 5, NoId>>, "b"),
      BookRow("update", 2, 2, <<6, 7, 5, NoId>>, "c"),
      BookRow("update", 1, 2, <<4, 5, 3, NoId>>, "a"),
      BookRow("update", 2, 2, <<9, 8, 7, NoId>>, "a"),
      BookRow("update", 2, NoId, <<8, 9, 7, NoId>>, "a")},
   bybit |->
     {BookRow("snapshot", 1, NoId, <<NoId, NoId, NoId, 5>>, "a"),
      BookRow("snapshot", 1, NoId, <<NoId, 5, NoId, 5>>, "b"),
      BookRow("update", 2, 2, <<NoId, 6, NoId, 7>>, "a"),
      BookRow("update", 2, 2, <<NoId, 7, NoId, 8>>, "b"),
      BookRow("update", 1, 2, <<NoId, 7, NoId, 8>>, "b"),
      BookRow("update", 2, NoId, <<NoId, 7, NoId, 8>>, "a"),
      BookRow("update", 2, 2, <<NoId, 0, NoId, 8>>, "a")}]

-----------------------------------------------------------------------------
MCInit ==
  /\ part \in {"samplers", "archive", "reader"}
  /\ BothInit /\ Archive!Init /\ ReaderInit
  /\ part # "reader" => venue = "bybit"
  /\ part # "archive" => \A h \in Hours : served[h] = CHOOSE b \in Bytes : TRUE

MCNext ==
  /\ UNCHANGED part
  /\ \/ part = "samplers" /\ BothNext /\ UNCHANGED <<archiveVars, readerVars>>
     \/ part = "archive" /\ Archive!Next /\ UNCHANGED <<samplerVars, readerVars>>
     \/ part = "reader" /\ ReaderNext /\ UNCHANGED <<samplerVars, archiveVars>>

(* The fairness of the archive, while it is the part that moves.             *)
ArchiveFairness ==
  \A a \in Apps :
    /\ WF_archiveVars(part = "archive" /\ Archive!Startup(a))
    /\ WF_archiveVars(part = "archive" /\ Archive!FetchStep(a))
    /\ WF_archiveVars(part = "archive" /\ Archive!PruneFinish(a))
    /\ WF_archiveVars(part = "archive" /\ Archive!RepairFinish(a))
    /\ SF_archiveVars(part = "archive" /\ Archive!Obtain(a))
    /\ SF_archiveVars(part = "archive" /\ Archive!Publish(a))
    /\ SF_archiveVars(part = "archive" /\ Archive!Record(a))
    /\ \A h \in Hours :
         /\ SF_archiveVars(part = "archive" /\ Archive!QuarantineIncomplete(a, h))
         /\ SF_archiveVars(part = "archive" /\ Archive!Refetch(a, h))

MCSpec == MCInit /\ [][MCNext]_<<part, samplerVars, archiveVars, readerVars>> /\ ArchiveFairness

-----------------------------------------------------------------------------
(* An hour whose archive is missing, corrupt or withdrawn is acquired again   *)
(* with its durable content, once the provider serves that for good.          *)
Reacquired == Archive!Reacquired
=============================================================================
