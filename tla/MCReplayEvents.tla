---------------------------- MODULE MCReplayEvents ----------------------------
(* A small market for the replay: two prices, two payloads, frontiers 0..3. *)
(* The archive may hold genuine events, updates with the right frontier and *)
(* the wrong content, one-sided snapshots, snapshots without a frontier,    *)
(* fields the contract forbids and events of another symbol.                *)
EXTENDS VenueSequence

CONSTANTS q1, q2, Missing   \* two payloads and the absence of a level

MCPrices == {1, 2}
MCPayloads == {q1, q2}

(* The fields a venue sends for an update from frontier f to frontier g.    *)
UpdateFields(f, g) ==
    CASE Venue = "binance_futures" ->
            [first |-> f + 1, final |-> g, prev |-> f, last |-> NoId]
      [] Venue = "bybit" ->
            [first |-> NoId, final |-> g, prev |-> NoId, last |-> g]
      [] Venue = "okx_futures" ->
            [first |-> NoId, final |-> g, prev |-> NoId, last |-> f]

SnapshotFields(f) ==
    [first |-> NoId, prev |-> NoId, last |-> IF f = NoId THEN 0 ELSE f,
     final |-> IF Venue = "binance_futures" THEN NoId ELSE f]

Event(type, ids, changes) ==
    [type |-> type, own |-> TRUE, timed |-> TRUE, changes |-> changes,
     first |-> ids.first, final |-> ids.final,
     prev |-> ids.prev, last |-> ids.last]

Quote(bid, ask) == [l \in {<<"bid", 1>>, <<"ask", 2>>} |->
                        IF l[1] = "bid" THEN bid ELSE ask]
Only(s, p, q) == [l \in {<<s, p>>} |-> q]

Snapshots ==
    {Event("snapshot", SnapshotFields(f), Quote(q1, q))
        : f \in {0, 2} \cup (IF Venue = "bybit" THEN {NoId} ELSE {}),
          q \in {q1, Missing}}

Updates ==
    {Event("update", UpdateFields(f, f + 1), c)
        : f \in 0..2, c \in {Only("bid", 1, q2), Only("bid", 1, Missing),
                             Only("ask", 1, q1)}}

Malformed ==
    {[Event("update", UpdateFields(0, 1), Only("bid", 1, q2))
         EXCEPT !.timed = (Venue = "okx_futures"), !.last = NoId],
     [Event("update", UpdateFields(0, 1), Only("bid", 1, q2))
         EXCEPT !.own = FALSE]}

MCEvents == Snapshots \cup Updates \cup Malformed
-----------------------------------------------------------------------------
(* A venue with sequence positions 0..3 whose book gains, replaces and loses *)
(* levels, once leaving a side empty, and every event it can send: updates   *)
(* over one step (over two for Binance and OKX), a snapshot at every         *)
(* two-sided position, Bybit's snapshots without a frontier, and noise.      *)
MCLevels == {"bid", "ask"} \X MCPrices

Book(b1, b2, a1, a2) ==
    [l \in MCLevels |->
        CASE l = <<"bid", 1>> -> b1 [] l = <<"bid", 2>> -> b2
          [] l = <<"ask", 1>> -> a1 [] l = <<"ask", 2>> -> a2]

MCPositions == 0..3
MCTruth ==
    [f \in MCPositions |->
        CASE f = 0 -> Book(q1, Missing, Missing, q1)
          [] f = 1 -> Book(q2, Missing, Missing, q1)
          [] f = 2 -> Book(q2, Missing, Missing, Missing)
          [] f = 3 -> Book(Missing, q1, q2, q2)]

Difference(f, g) ==
    [l \in {k \in MCLevels : MCTruth[f][k] # MCTruth[g][k]} |-> MCTruth[g][l]]

Full(f) == [l \in {k \in MCLevels : MCTruth[f][k] # Missing} |-> MCTruth[f][l]]

FeedUpdates ==
    {Event("update", UpdateFields(f, g), Difference(f, g))
        : <<f, g>> \in {p \in MCPositions \X MCPositions :
                            /\ p[1] < p[2]
                            /\ p[2] =< p[1] + (IF Venue = "bybit" THEN 1 ELSE 2)}}

FeedSnapshots ==
    {Event("snapshot", SnapshotFields(f), Full(f)) : f \in {0, 1, 3}}

UnnumberedSnapshot(f) ==
    [Event("snapshot", SnapshotFields(NoId), Full(f)) EXCEPT !.last = f]

Unnumbered == IF Venue = "bybit" THEN {UnnumberedSnapshot(f) : f \in {0, 1, 3}}
              ELSE {}

MCTakenAt == [e \in Unnumbered |-> e.last]

MCFeedEvents == FeedUpdates \cup FeedSnapshots \cup Unnumbered \cup Malformed
=============================================================================
