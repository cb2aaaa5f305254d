------------------------------ MODULE MCDlDecoder ------------------------------
(* A recording that begins shortly before the wraps of slot, frame,        *)
(* multiframe and hyperframe.                                              *)
EXTENDS DlDecoder
S == INSTANCE BenchVectors

EdgeTimes == {<<3, 17, 59>>, <<3, 18, 60>>, <<1, 18, 8>>}

(* schedule.py labels the slots of the same recording by counting from the *)
(* sync burst it locked to, decode_dl.py by a clock it sets at every sync  *)
(* burst: once decode_dl has taken one of that cell in its loop, the two   *)
(* give every slot the same time.                                          *)
ScheduleAgrees ==
  acq.cell \notin Direct /\ code = acq.cell /\ synced = {acq.cell} =>
    LET anchor == AirTime(acq.cell, acq.slot)
        label  == S!SlotLabel(idx, acq.slot, [mn |-> anchor[3], fn |-> anchor[2], tn |-> anchor[1] - 1])
    IN  nt = <<label.tn + 1, label.fn, label.mn>>
=============================================================================
