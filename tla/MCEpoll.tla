------------------------------- MODULE MCEpoll -------------------------------
(* Epoll for TLC: a task that calls epoll_wait and poll, the read end of a  *)
(* pipe, an eventfd and a timer of the task, and an input device.           *)
EXTENDS Epoll

CONSTANTS waiter, pipe, eventfd, timerfd, evdev

PolledFds == <<eventfd, timerfd>>
Order == <<pipe, evdev, timerfd, eventfd>>
Owners == [f \in {eventfd, timerfd} |-> waiter]
Finite == {<<waiter, "finite">>}
Watched == {<<pipe, {"in", "oneshot"}>>, <<evdev, {"in", "et"}>>}
=============================================================================
