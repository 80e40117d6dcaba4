SPECIFICATION FairSpec
CONSTANTS
  p1 = p1
  p2 = p2
  s1 = s1
  s2 = s2
  s3 = s3
  o1 = o1
  camera = camera
  lidar = lidar
  Publishers <- MeshPublishers
  Subscribers <- MeshSubscribers
  Observers <- NoObserver
  Topics <- MeshTopics
  TopicOf <- MeshTopicOf
  TopicsOf <- MeshTopicsOf
  SlotCount = 2
  MaxBatch = 2
  QueueCap = 3
CHECK_DEADLOCK FALSE
INVARIANTS SubscriberAgrees
PROPERTIES ClientsCatchUp
