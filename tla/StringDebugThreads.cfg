\* The timer thread as user_irq.c makes it: it runs beside main.
CONSTANTS
  N = 3
  ByteRange = 256
  Interrupt = FALSE
  MaxStrings = 5
SPECIFICATION Spec
INVARIANT QueueNotInterrupted
