\* One claim submitted by two requests, crashes at every step, one recovery job; one
\* webhook in one worker slot, tried three times.
CONSTANTS
  Txs = {1}
  Handlers = {h1, h2}
  Recoverers = {r1}
  SendTries = 1
  NoTx = 0
  Nobody = Nobody
  Events = {e1}
  Slots = {w1}
  NoEvent = NoEvent
  MaxTries = 3
SPECIFICATION SettlesSpec
PROPERTIES
  EverySubmissionSettles
  EveryWebhookSettles
\* Queues empty and every claim is decided.
CHECK_DEADLOCK FALSE
