--------------------------- MODULE MCTraceBuffer ---------------------------
(***************************************************************************)
(* TraceBuffer in operator_relay mode on small instances.                  *)
(***************************************************************************)
EXTENDS TraceBuffer

OneSink == <<"otlp">>
=============================================================================
