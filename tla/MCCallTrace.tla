----------------------------- MODULE MCCallTrace -----------------------------
(* Instances of the call-tracing pintool: a target linked with a helper    *)
(* library, an ASan runtime routine and libc, launched as                  *)
(* pinbin -t calltrace.so -blockFunc asan -blockModule libc -- target.    *)
EXTENDS CallTrace

(* Routines: image name, routine name. *)
MCImg == [r_main |-> "/tmp/target", r_asan |-> "/tmp/target",
          r_foo |-> "/lib/libfoo.so", r_malloc |-> "/lib/libc.so.6",
          r_ld |-> "/lib/ld-linux.so"]
MCRtnName == [r_main |-> "main", r_asan |-> "__asan_report_load8",
              r_foo |-> "foo_init", r_malloc |-> "malloc",
              r_ld |-> "_dl_start"]

(* Traces: the routine they are in and the instruction at their tail. *)
MCTrace == [ld   |-> [rtn |-> "r_ld",     tail |-> "a_ld"],
            foo  |-> [rtn |-> "r_foo",    tail |-> "a_foo"],
            main |-> [rtn |-> "r_main",   tail |-> "a_main"],
            asan |-> [rtn |-> "r_asan",   tail |-> "a_asan"],
            mal  |-> [rtn |-> "r_malloc", tail |-> "a_malloc"]]
MCTraceRtn(tr) == MCTrace[tr].rtn
MCTail(tr) == MCTrace[tr].tail
MCRtnNameOf(r) == MCRtnName[r]
MCImgNameOf(r) == MCImg[r]

(* Substring search between the few names and items of the instance. *)
MCMatch(name, item) ==
    <<name, item>> \in {<<"/tmp/target", "target">>,
                        <<"__asan_report_load8", "asan">>,
                        <<"/lib/libc.so.6", "libc">>}

MCArgs == {"/opt/pin/intel64/bin/pinbin", "-t", "calltrace.so", "--",
           "/tmp/target"}
MCBasename(a) ==
    CASE a = "/opt/pin/intel64/bin/pinbin" -> "pinbin"
      [] a = "/tmp/target"                 -> "target"
      [] OTHER                             -> a
MCArgv == <<"/opt/pin/intel64/bin/pinbin", "-t", "calltrace.so", "--",
            "/tmp/target">>
(* The main thread runs the loader, a call in main, the ASan runtime and  *)
(* libc, both blocked, and main again; two worker threads only run        *)
(* blocked or call-free code, so at most one thread ever writes.          *)
MCProgOne == [t \in {"t1", "t2", "t3"} |->
                CASE t = "t1" -> <<"ld", "main", "asan", "mal", "main">>
                  [] t = "t2" -> <<"mal", "asan", "ld", "mal">>
                  [] t = "t3" -> <<"asan", "ld">>]
(* As above, with a second thread that also calls from main: two        *)
(* threads run do_call on the shared ofstream.                           *)
MCProgMany == [t \in {"t1", "t2", "t3"} |->
                 CASE t = "t1" -> <<"ld", "main", "asan", "mal", "main">>
                   [] t = "t2" -> <<"mal", "main", "asan", "main">>
                   [] t = "t3" -> <<"asan", "ld">>]
(* The helper library's constructor runs before main and again after it. *)
MCProgLate == [t \in {"t1"} |-> <<"ld", "foo", "main", "foo">>]
(* Two threads calling from main. *)
MCProgTwo == [t \in {"t1", "t2"} |-> <<"main", "main">>]
(* The block lists: -blockFunc asan -blockModule libc, and -blockFunc    *)
(* ,asan with a stray leading comma.                                      *)
MCBlockFunc == <<"asan">>
MCBlockFuncStray == <<",", "asan">>
MCBlockModule == <<"libc">>
=============================================================================
