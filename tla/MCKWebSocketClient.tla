------------------------- MODULE MCKWebSocketClient -------------------------
(* An instance of KWebSocketClient for TLC: two calls with a callback,     *)
(* one of them under lv_lock from either thread, and one without.          *)
EXTENDS KWebSocketClient

CONSTANTS LVGL, Libhv, c1, c2, c3

MCThreads      == {LVGL, Libhv}
MCCalls        == {c1, c2, c3}
MCWithCallback == {c1, c2}
MCUnderLock    == {c1}
=============================================================================
