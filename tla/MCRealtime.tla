----------------------------- MODULE MCRealtime -----------------------------
(* The device starts at once or later, is stopped at 2 or only by Destroy,  *)
(* and another event of the same times goes with it.                        *)
EXTENDS FdNetDevice

Event(ts, uid0, kind) == [ts |-> ts, uid |-> uid0, kind |-> kind]

MCInitial == {{},
              {Event(0, 0, "StartDevice"), Event(2, 1, "other")},
              {Event(0, 0, "StartDevice"), Event(2, 1, "StopDevice"), Event(2, 2, "other")},
              {Event(2, 0, "StopDevice"), Event(2, 1, "StartDevice"), Event(0, 2, "other")}}
=============================================================================
