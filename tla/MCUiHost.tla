------------------------------ MODULE MCUiHost ------------------------------
\* UiHost with two threads and a queue of one event.
EXTENDS UiHost
=============================================================================
