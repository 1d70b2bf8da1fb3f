------------------------------ MODULE EventFd -------------------------------
(***************************************************************************)
(* EventFd: a kernel counter that threads add to and a coroutine reads     *)
(* through IoQueue (src/src/eventfd.cpp, src/include/aiopp/eventfd.hpp).   *)
(* The descriptor is a blocking one: a read that IoQueue has issued stays  *)
(* with the kernel until the counter is positive.                          *)
(***************************************************************************)
EXTENDS Naturals

Flags == {"None", "Semaphore"}

(* EventFd::EventFd: ::eventfd(0, flags).                                  *)
Zero == 0

(* EventFd::write: ::eventfd_write(fd_, v).                                *)
write(counter, v) == counter + v

(* A read of the kernel can complete; the value that EventFd::read puts    *)
(* into its buffer; what is left in the counter.                           *)
readable(counter) == counter > 0

buf(flags, counter) == IF flags = "Semaphore" THEN 1 ELSE counter

afterRead(flags, counter) == counter - buf(flags, counter)
=============================================================================
