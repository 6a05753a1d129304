------------------------- MODULE MCRunHistoryPages --------------------------
(* A small instance of RunHistoryPages for TLC. *)
EXTENDS RunHistoryPages

Plain == [status |-> {}, startTime |-> 0, endTime |-> 0, search |-> NoSearch,
          orderBy |-> "none", order |-> "none", take |-> 0]

(* Each parameter alone, in its odd forms too, and some together. *)
SmallRequests ==
    { Plain,
      [Plain EXCEPT !.take = 1],
      [Plain EXCEPT !.take = 1, !.orderBy = "createdAt", !.order = "asc"],
      [Plain EXCEPT !.take = 1, !.orderBy = "runAt", !.order = "desc"],
      [Plain EXCEPT !.take = 1, !.orderBy = "runAt", !.order = "asc", !.status = {Garbled}],
      [Plain EXCEPT !.take = 1, !.order = "asc", !.startTime = Garbled],
      [Plain EXCEPT !.take = 1, !.status = {Running}],
      [Plain EXCEPT !.status = {Running, Garbled}, !.endTime = 1],
      [Plain EXCEPT !.startTime = 2, !.take = 1],
      [Plain EXCEPT !.startTime = 2, !.endTime = 2],
      [Plain EXCEPT !.take = 1, !.search = [day |-> 0, ids |-> {1, 3}]],
      [Plain EXCEPT !.search = [day |-> 1, ids |-> {}]] }

=============================================================================
