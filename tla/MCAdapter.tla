------------------------------ MODULE MCAdapter ------------------------------
(* A small instance of PyWorker: the sequences of MCScripts, which have every *)
(* step and the pairs of steps that meet each other, two packages, and the    *)
(* cases of MCShapes.                                                         *)
EXTENDS PyWorker

Root(asks) == [parent |-> 1, asks |-> asks]

(* All a node may ask for; a chain and a flat tree; no array, no block.     *)
MCShapes ==
  {[blocks |-> 2,
    schema |-> <<Root({"name", "metadata", "slots"}),
                 [parent |-> 1, asks |-> {"name", "slots"}],
                 [parent |-> 2, asks |-> {}]>>,
    array  |-> <<Root({"buffers", "slots"}), [parent |-> 1, asks |-> {"buffers"}]>>],
   [blocks |-> 0, schema |-> <<Root({})>>, array |-> <<>>]}

MCScripts ==
  {<<"NOP">>, <<"IMPORT_SCHEMA">>, <<"RELEASE_CHILD">>, <<"STREAM_GET_LAST_ERROR">>,
   <<"EXPECT_EOF">>, <<"STREAM_GET_SCHEMA">>, <<>>,
   <<"IMPORT_ARRAY", "IMPORT_ARRAY">>, <<"MOVE_STRUCT", "IMPORT_ARRAY">>,
   <<"IMPORT_ARRAY", "MOVE_STRUCT">>, <<"MOVE_STRUCT", "STREAM_GET_NEXT">>,
   <<"RELEASE_BASE", "MOVE_STRUCT", "MOVE_STRUCT">>,
   <<"IMPORT_ARRAY", "RELEASE_BASE", "NOP">>,
   <<"STREAM_GET_SCHEMA", "STREAM_GET_NEXT", "STREAM_GET_NEXT", "EXPECT_EOF">>}

MCCells == [offset : {"0", "1"}, alignment : {"natural", "misaligned"}, type : {"i", "u"}]

Entry(dimension, values, pattern) ==
  [consumer |-> "dataprof", dimension |-> dimension, values |-> values, pattern |-> pattern]

MCLimitTables ==
  SUBSET {Entry("offset", {"1"}, FALSE), Entry("alignment", {"misaligned"}, TRUE),
          Entry("type", {"u"}, FALSE), Entry("offset", {"0"}, FALSE)}
=============================================================================
