SPECIFICATION Spec
CONSTANTS
  p1 = p1
  p2 = p2
  s1 = s1
  s2 = s2
  s3 = s3
  o1 = o1
  camera = camera
  lidar = lidar
  Publishers <- ReusePublishers
  Subscribers <- ReuseSubscribers
  Observers <- NoObserver
  Topics <- ReuseTopics
  TopicOf <- ReuseTopicOf
  TopicsOf <- ReuseTopicsOf
  SlotCount = 2
  MaxBatch = 1
  QueueCap = 4
CHECK_DEADLOCK FALSE
INVARIANTS DisconnectsAreDelivered
